---- MODULE Spec2Model ----
(***************************************************************************)
(* TesterTool: the page-analysis pipeline (fetch, parse, probe, synthesize *)
(* test cases, export) of src/app.py and src/analyzer/*.py.                *)
(*                                                                         *)
(* Python values are modelled as follows.  A dict is a record, a list a    *)
(* sequence, a str a string.  None is "None" in a string slot, NoneInt in  *)
(* an integer slot and NoneDict in a dict slot.  An f-string is the tuple  *)
(* of its literal text and its interpolated values.  A URL is the record   *)
(* [scheme, netloc, path] that urlparse would give for it.                 *)
(***************************************************************************)
EXTENDS Integers, Sequences, FiniteSets, TLC

VARIABLES
    interpreter,       \* the Python release the program runs under
    pc,                \* position of the analyze handler
    request_url,       \* request.form.get('url')
    site,              \* the page served at the URL under analysis
    crawler,           \* the WebCrawler of this request, or NoneDict
    attempts,          \* session.get calls issued by fetch_website_content
    fetch_handler,     \* except clause of fetch_website_content being executed
    fetch_error,       \* exception that left fetch_website_content, or "None"
    content,           \* text returned by fetch_website_content, or NoneDict
    parser,            \* the WebParser of this request, or NoneDict
    links, forms, structure, language_analysis,   \* results of the parse stage
    link_checks,       \* results of check_link_accessibility, in call order
    probes,            \* requests issued by the link / form checker
    test_cases,        \* TestCaseGenerator.test_cases
    tc_counter,        \* TestCaseGenerator.tc_counter
    exported,          \* rows written by export_to_csv, or NoneDict
    response,          \* what analyze returned, or NoneDict
    log,               \* stage events of the handler in the order they happened
    calls,             \* number of calls made on the object under test
    last_call,         \* the last call made and what it returned or raised
    wrap_results       \* lists returned by the module-level generate_test_cases

vars == <<interpreter, pc, request_url, site, crawler, attempts, fetch_handler, fetch_error,
          content, parser, links, forms, structure, language_analysis,
          link_checks, probes, test_cases, tc_counter, exported, response, log,
          calls, last_call, wrap_results>>

pipeVars == <<interpreter, pc, request_url, site, crawler, attempts, fetch_handler,
              fetch_error, content, parser, links, forms, structure,
              language_analysis, link_checks, probes, exported, response, log>>

genVars == <<test_cases, tc_counter>>

callVars == <<calls, last_call, wrap_results>>

----------------------------------------------------------------------------
(* Bounds of the model *)

MaxLinks == 2      \* anchors on a page
MaxCalls == 3      \* calls made on one TestCaseGenerator
MaxForms == 2      \* forms on a page given to the parser
MaxImages == 3     \* images on a page given to the parser
MaxWrapCalls == 2  \* calls of the module-level generate_test_cases
MaxPieces == 2     \* pieces of markup a raw response body is made of

(* Python None *)
None == "None"
NoneInt == -1
NoneDict == [none |-> TRUE]
IsNone(d) == "none" \in DOMAIN d

(* Python truthiness of a str-or-None value *)
Truthy(s) == s # None /\ s # ""

\* key in d, for a dict d
HasKey(d, k) == k \in DOMAIN d

\* the dict {} and d.get(k, default)
EmptyDict == [k \in {} |-> None]
DictGet(d, k, default) == IF HasKey(d, k) THEN d[k] ELSE default
Min(a, b) == IF a <= b THEN a ELSE b
Range(s) == {s[i] : i \in DOMAIN s}
Count(s, S) == Cardinality({i \in DOMAIN s : s[i] \in S})

----------------------------------------------------------------------------
(* URLs: urllib.parse.urlparse / urljoin *)

Url(scheme, netloc, path) == [scheme |-> scheme, netloc |-> netloc, path |-> path]

\* a path is [abs, segs]: "/a/b" is [abs |-> TRUE, segs |-> <<"a","b">>]
Path(abs, segs) == [abs |-> abs, segs |-> segs]
EmptyPath == Path(FALSE, <<>>)

\* path.split('/'): "/a/b" gives <<"", "a", "b">>, "/" gives <<"", "">>, "" gives <<"">>
SplitPath(p) ==
    LET segs == IF p.segs = <<>> THEN <<"">> ELSE p.segs
    IN IF p.abs THEN <<"">> \o segs ELSE segs

\* the path whose text is '/'.join(parts) or '/'
JoinPath(parts) ==
    IF parts = <<>> \/ parts = <<"">> THEN Path(TRUE, <<>>)
    ELSE IF parts[1] = ""
         THEN Path(TRUE, IF Tail(parts) = <<"">> THEN <<>> ELSE Tail(parts))
         ELSE Path(FALSE, parts)

\* base_parts: the split base path without its last item unless that is ''
BaseParts(bpath) ==
    LET parts == SplitPath(bpath)
    IN IF parts[Len(parts)] # "" THEN SubSeq(parts, 1, Len(parts) - 1) ELSE parts

\* segments[1:-1] = filter(None, segments[1:-1])
FilterMiddle(segments) ==
    IF Len(segments) <= 2 THEN segments
    ELSE <<segments[1]>>
         \o SelectSeq(SubSeq(segments, 2, Len(segments) - 1), LAMBDA x : x # "")
         \o <<segments[Len(segments)]>>

\* the loop over the segments that drops '.' and pops on '..'
RECURSIVE ResolveSegments(_, _)
ResolveSegments(segments, resolved_path) ==
    IF segments = <<>> THEN resolved_path
    ELSE LET seg == Head(segments)
         IN ResolveSegments(Tail(segments),
                IF seg = ".."
                THEN IF resolved_path = <<>> THEN resolved_path
                     ELSE SubSeq(resolved_path, 1, Len(resolved_path) - 1)
                ELSE IF seg = "." THEN resolved_path
                ELSE Append(resolved_path, seg))

\* urlparse(url) raises ValueError('Invalid IPv6 URL'): the netloc has a '['
\* without its ']', as in 'http://[x'.  urlparse(None) does not raise.
urlparse_raises(url) == ~IsNone(url) /\ url.netloc \in {"[x"}

\* urljoin(base, ref) raises: it parses both unless one of them is empty
urljoin_raises(base, ref) ==
    /\ base # Url("", "", EmptyPath)
    /\ ref # Url("", "", EmptyPath)
    /\ (urlparse_raises(base) \/ urlparse_raises(ref))

\* the schemes of urllib.parse.uses_relative and uses_netloc the model's URLs
\* can have
uses_relative == {"", "http", "https", "ftp", "file"}
uses_netloc == {"", "http", "https", "ftp", "file"}

\* the releases of Python whose urlunsplit differ: before and after the change
\* that keeps a path starting with '//' apart from a netloc
Interpreters == {"3.11", "3.13"}

\* urlunparse under release py, as the URL its text parses to.  With a netloc
\* a path that is not empty gets a leading '/'.  Without one, 3.11 writes
\* '//' before the path for a scheme that takes a netloc unless the path
\* starts with '//', and leaves a path that starts with '//' as it is, so that
\* its first segment reads as the netloc; 3.13 writes the path so that it
\* reads as the path it was.
urlunparse_on(py, scheme, netloc, path) ==
    LET relative == path.segs # <<>> /\ ~path.abs
        \* url[:2] == '//'
        double == path.abs /\ Len(path.segs) >= 2 /\ path.segs[1] = ""
        rooted == IF relative THEN Path(TRUE, path.segs) ELSE path
    IN  IF netloc # "" THEN Url(scheme, netloc, rooted)
        ELSE IF py = "3.11"
        THEN IF scheme # "" /\ scheme \in uses_netloc /\ ~double
             THEN Url(scheme, netloc, rooted)
             ELSE IF double
             THEN Url(scheme, path.segs[2],
                      IF Len(path.segs) = 2 THEN EmptyPath
                      ELSE JoinPath(<<"">> \o SubSeq(path.segs, 3, Len(path.segs))))
             ELSE Url(scheme, netloc, path)
        ELSE Url(scheme, netloc, path)

\* urljoin(base, ref) under release py, for refs without params, query or
\* fragment
urljoin_on(py, base, ref) ==
    IF base = Url("", "", EmptyPath) THEN ref
    ELSE IF ref = Url("", "", EmptyPath) THEN base
    ELSE LET scheme == IF ref.scheme = "" THEN base.scheme ELSE ref.scheme
         IN IF scheme # base.scheme \/ scheme \notin uses_relative THEN ref
            ELSE IF ref.netloc # "" THEN urlunparse_on(py, scheme, ref.netloc, ref.path)
            ELSE IF ref.path = EmptyPath THEN urlunparse_on(py, scheme, base.netloc, base.path)
            ELSE LET segments ==
                         IF ref.path.abs THEN SplitPath(ref.path)
                         ELSE FilterMiddle(BaseParts(base.path) \o SplitPath(ref.path))
                     resolved_path == ResolveSegments(segments, <<>>)
                     trailing == IF segments[Len(segments)] \in {".", ".."}
                                 THEN Append(resolved_path, "") ELSE resolved_path
                 IN urlunparse_on(py, scheme, base.netloc, JoinPath(trailing))

urlunparse(scheme, netloc, path) == urlunparse_on(interpreter, scheme, netloc, path)

urljoin(base, ref) == urljoin_on(interpreter, base, ref)

\* a validator that accepts every string
validators_url_AnyString(u) == TRUE

\* validators.url: an absolute http(s) URL with a host that parses
validators_url(u) ==
    u.scheme \in {"http", "https"} /\ u.netloc # "" /\ ~urlparse_raises(u)

IsAbsolute(u) == u.scheme # "" /\ u.netloc # ""

----------------------------------------------------------------------------
(* requests.exceptions: the classes the code catches, with their bases *)

ExcBases(cls) ==
    CASE cls = "ReadTimeout"     -> {"ReadTimeout", "Timeout", "RequestException", "Exception"}
      [] cls = "ConnectTimeout"  -> {"ConnectTimeout", "ConnectionError", "Timeout",
                                     "RequestException", "Exception"}
      [] cls = "ConnectionError" -> {"ConnectionError", "RequestException", "Exception"}
      [] cls = "SSLError"        -> {"SSLError", "ConnectionError", "RequestException", "Exception"}
      [] cls = "HTTPError"       -> {"HTTPError", "RequestException", "Exception"}
      [] cls = "TooManyRedirects" -> {"TooManyRedirects", "RequestException", "Exception"}
      [] cls = "InvalidSchema"   -> {"InvalidSchema", "RequestException", "ValueError",
                                     "Exception"}
      [] cls = "Timeout"         -> {"Timeout", "RequestException", "Exception"}
      [] cls = "RequestException" -> {"RequestException", "Exception"}
      [] OTHER                   -> {cls, "Exception"}

isinstance(exc, cls) == cls \in ExcBases(exc)

\* a try statement whose first clause catches every RequestException
FirstClause_CatchAllFirst(clauses, exc) ==
    IF clauses # <<>> /\ isinstance(exc, "RequestException") THEN Head(clauses) ELSE None

\* the first except clause of a try statement that catches exc, or "None"
RECURSIVE FirstClause(_, _)
FirstClause(clauses, exc) ==
    IF clauses = <<>> THEN None
    ELSE IF isinstance(exc, Head(clauses)) THEN Head(clauses)
    ELSE FirstClause(Tail(clauses), exc)

----------------------------------------------------------------------------
(* f'TC_{n:03d}' *)

RECURSIVE Digits(_)
Digits(n) == IF n < 10 THEN <<n>> ELSE Digits(n \div 10) \o <<n % 10>>

RECURSIVE ZeroPad(_, _)
ZeroPad(d, width) == IF Len(d) >= width THEN d ELSE ZeroPad(<<0>> \o d, width)

Format03d(n) == ZeroPad(Digits(n), 3)

TcId(n) == [prefix |-> "TC_", digits |-> Format03d(n)]

\* int() of a digit string
RECURSIVE ParseInt(_)
ParseInt(d) == IF d = <<>> THEN 0 ELSE 10 * ParseInt(SubSeq(d, 1, Len(d) - 1)) + d[Len(d)]

----------------------------------------------------------------------------
(* TestCaseGenerator (test_generator.py) *)

\* TestCaseGenerator.__init__
\* a generator that takes its counter over from the calls made before
NewTestCaseGenerator_CounterKept == [test_cases |-> <<>>, tc_counter |-> tc_counter]
NewTestCaseGenerator == [test_cases |-> <<>>, tc_counter |-> 1]

\* the record add_test_case appends, without its TC_ID
TestCase(description, test_step, expected_result, actual_result, status) ==
    [Description    |-> description,
     TestStep       |-> test_step,
     ExpectedResult |-> expected_result,
     ActualResult   |-> actual_result,
     Status         |-> status]

\* TestCaseGenerator.add_test_case
\* add_test_case without line 24: the counter is not advanced
add_test_case_NoIncrement(gen, tc) ==
    [test_cases |-> Append(gen.test_cases,
                           [TC_ID          |-> TcId(gen.tc_counter),
                            Description    |-> tc.Description,
                            TestStep       |-> tc.TestStep,
                            ExpectedResult |-> tc.ExpectedResult,
                            ActualResult   |-> tc.ActualResult,
                            Status         |-> tc.Status]),
     tc_counter |-> gen.tc_counter]
add_test_case(gen, tc) ==
    [test_cases |-> Append(gen.test_cases,
                           [TC_ID          |-> TcId(gen.tc_counter),
                            Description    |-> tc.Description,
                            TestStep       |-> tc.TestStep,
                            ExpectedResult |-> tc.ExpectedResult,
                            ActualResult   |-> tc.ActualResult,
                            Status         |-> tc.Status]),
     tc_counter |-> gen.tc_counter + 1]

(* The body of a generate_* method is a sequence of steps, each a call of  *)
(* add_test_case or an exception raised while its arguments are evaluated. *)
Add(description, test_step, expected_result, actual_result, status) ==
    <<[op |-> "add",
       tc |-> TestCase(description, test_step, expected_result, actual_result, status)]>>
Raise(exc) == <<[op |-> "raise", exc |-> exc]>>
Skip == <<>>

Raises(steps) == steps # <<>> /\ steps[Len(steps)].op = "raise"

\* statement sequencing: b runs only when a raised nothing
Then(a, b) == IF Raises(a) THEN a ELSE a \o b

\* run the steps on the generator up to the first exception
RECURSIVE Run(_, _)
Run(gen, steps) ==
    IF steps = <<>> THEN [gen |-> gen, raised |-> None]
    ELSE IF Head(steps).op = "raise" THEN [gen |-> gen, raised |-> Head(steps).exc]
    ELSE Run(add_test_case(gen, Head(steps).tc), Tail(steps))

\* the statements of a list, in order, up to the first exception
RECURSIVE ThenAll(_)
ThenAll(blocks) ==
    IF blocks = <<>> THEN Skip ELSE Then(Head(blocks), ThenAll(Tail(blocks)))

\* for i, x in enumerate(xs, 1): Body(x, i)
ForEach(xs, Body(_, _)) == ThenAll([i \in DOMAIN xs |-> Body(xs[i], i)])

\* one (link, check) pair whose failure message always carries the status code
LinkPairSteps_StatusOnly(link, check) ==
    Then(Add(<<"Verify presence of link: ", link.text>>,
             <<"Check if link with text exists", link.text>>,
             <<"Link should be present in the page">>,
             <<"Link is present">>,
             "Pass"),
         Add(<<"Verify accessibility of link: ", link.text>>,
             <<"Try to access URL: ", link.url>>,
             <<"Link should be accessible with 2xx/3xx status code">>,
             IF check.is_accessible
             THEN <<"Link is accessible with status code ", check.status_code>>
             ELSE <<"Link is not accessible: Status code: ", check.status_code>>,
             IF check.is_accessible THEN "Pass" ELSE "Fail"))

\* TestCaseGenerator.generate_link_test_cases: one (link, check) pair.  The
\* default of check.get('error', ...) is evaluated before the lookup, so
\* check['status_code'] is read on both branches.
LinkPairSteps(link, check) ==
    Then(Add(<<"Verify presence of link: ", link.text>>,
             <<"Check if link with text exists", link.text>>,
             <<"Link should be present in the page">>,
             <<"Link is present">>,
             "Pass"),
         IF ~HasKey(check, "is_accessible") \/ ~HasKey(check, "status_code")
         THEN Raise("KeyError")
         ELSE Add(<<"Verify accessibility of link: ", link.text>>,
                  <<"Try to access URL: ", link.url>>,
                  <<"Link should be accessible with 2xx/3xx status code">>,
                  IF check.is_accessible
                  THEN <<"Link is accessible with status code ", check.status_code>>
                  ELSE IF HasKey(check, "error")
                       THEN <<"Link is not accessible: ", check.error>>
                       ELSE <<"Link is not accessible: Status code: ", check.status_code>>,
                  IF check.is_accessible THEN "Pass" ELSE "Fail"))

\* generate_link_test_cases that goes through every link, with the check of
\* the same position or, past the end of the checks, the last one
generate_link_test_cases_EveryLink(ls, checks) ==
    LET Body(link, i) == LinkPairSteps(link, checks[Min(i, Len(checks))])
    IN  IF checks = <<>> THEN Skip ELSE ForEach(ls, Body)

\* TestCaseGenerator.generate_link_test_cases; zip stops at the shorter list
generate_link_test_cases(ls, checks) ==
    LET n == Min(Len(ls), Len(checks))
        Body(link, i) == LinkPairSteps(link, checks[i])
    IN  ForEach(SubSeq(ls, 1, n), Body)

\* names of the required fields of a form, in field order
RequiredNames(form) ==
    LET F(f) == f.required IN
    [i \in DOMAIN SelectSeq(form.fields, F) |-> SelectSeq(form.fields, F)[i].name]

\* the URL is a non-empty string
UrlTruthy(u) == u # Url("", "", EmptyPath)

\* TestCaseGenerator.generate_form_test_cases: form number i
FormSteps(form, i) ==
    Then(Add(<<"Verify presence of form #", i>>,
             <<"Check if form with action exists", form.action>>,
             <<"Form should be present in the page">>,
             <<"Form is present">>,
             "Pass"),
    Then(IF RequiredNames(form) # <<>>
         THEN Add(<<"Verify required fields in form #", i>>,
                  <<"Check if required fields are properly marked">>,
                  <<"Fields should be required", RequiredNames(form)>>,
                  <<"All required fields are properly marked">>,
                  "Pass")
         ELSE Skip,
         Add(<<"Verify form submission endpoint #", i>>,
             <<"Check if form action URL is valid", form.action>>,
             <<"Form action URL should be valid">>,
             <<"Form action URL is ", IF UrlTruthy(form.action) THEN "valid" ELSE "missing">>,
             IF UrlTruthy(form.action) THEN "Pass" ELSE "Fail")))

\* TestCaseGenerator.generate_form_test_cases
generate_form_test_cases(fs) == ForEach(fs, FormSteps)

----------------------------------------------------------------------------
(* generate_structure_test_cases and its helpers *)

\* the keys of the meta dict in the order extract_page_structure inserts them
MetaKeys == <<"description", "keywords", "viewport", "charset", "robots">>

\* 'width=device-width' in value, for the viewport contents of the model
ViewportResponsive == "width=device-width, initial-scale=1"
ViewportFixed == "width=1024"
ContainsDeviceWidth(v) == v \in {ViewportResponsive, "width=device-width"}

\* x or ''
OrEmpty(v) == IF v = None THEN "" ELSE v

\* a ratio is the fraction [num, den], the float num / den of the code
Ratio(num, den) == [num |-> num, den |-> den]

\* f'{ratio:.0%}': the float is multiplied by 100 and the product rounded to
\* an integer, a tie going to the even neighbour.  The product is rounded
\* as a float before that: up to den = 399 it differs from 100 * num / den
\* in the result for 0.575 (57.49999999999999) and 0.545 (54.50000000000001).
FormatPercent0(r) ==
    LET q == (100 * r.num) \div r.den
        rem == (100 * r.num) % r.den
    IN  IF 40 * r.num = 23 * r.den THEN 57
        ELSE IF 200 * r.num = 109 * r.den THEN 55
        ELSE IF 2 * rem > r.den THEN q + 1
        ELSE IF 2 * rem < r.den THEN q
        ELSE IF q % 2 = 0 THEN q ELSE q + 1
\* ratio > 0.8
RatioAbove80(r) == 10 * r.num > 8 * r.den

MetaSteps(meta) ==
    LET present == SelectSeq(MetaKeys, LAMBDA k : HasKey(meta, k))
        Body(k, i) ==
            Add(<<"Verify meta ", k>>,
                <<"Check if page has meta ", k>>,
                <<"Page should have meta ", k>>,
                <<"Meta is ", k, IF Truthy(meta[k]) THEN "present" ELSE "missing">>,
                IF Truthy(meta[k]) THEN "Pass" ELSE "Fail")
    IN  ForEach(present, Body)

ViewportSteps(meta) ==
    IF HasKey(meta, "viewport")
    THEN Add(<<"Verify responsive design meta tag">>,
             <<"Check if page has viewport meta tag">>,
             <<"Page should have viewport meta tag for responsiveness">>,
             <<"Viewport meta tag is present: ", meta.viewport>>,
             IF ContainsDeviceWidth(OrEmpty(meta.viewport)) THEN "Pass" ELSE "Fail")
    ELSE Skip

\* TestCaseGenerator._generate_resource_test_cases: a test case for each of
\* the two dicts that is neither None nor empty, read by counts['total'],
\* counts['external'] and counts['inline']
ResourceSteps(st) ==
    LET scripts == DictGet(st, "scripts", EmptyDict)
        stylesheets == DictGet(st, "stylesheets", EmptyDict)
        DictTruthy(d) == ~IsNone(d) /\ d # EmptyDict
        LacksCount(counts) == \E k \in {"total", "external", "inline"} : ~HasKey(counts, k)
    IN
    Then(IF ~DictTruthy(scripts) THEN Skip
         ELSE IF LacksCount(scripts) THEN Raise("KeyError")
         ELSE Add(<<"Verify script loading">>,
                  <<"Check script inclusion">>,
                  <<"Page should load all required scripts">>,
                  <<"Found scripts", scripts.total, scripts.external, scripts.inline>>,
                  IF scripts.total > 0 THEN "Pass" ELSE "Fail"),
         IF ~DictTruthy(stylesheets) THEN Skip
         ELSE IF LacksCount(stylesheets) THEN Raise("KeyError")
         ELSE Add(<<"Verify stylesheet loading">>,
                  <<"Check stylesheet inclusion">>,
                  <<"Page should load all required stylesheets">>,
                  <<"Found stylesheets", stylesheets.total, stylesheets.external,
                    stylesheets.inline>>,
                  IF stylesheets.total > 0 THEN "Pass" ELSE "Fail"))

\* TestCaseGenerator._generate_table_test_cases
TableSteps(tables) ==
    LET Body(table, i) ==
            Add(<<"Verify table accessibility #", i>>,
                <<"Check table structure and accessibility features">>,
                <<"Table should have proper headers and structure">>,
                <<"Table has", table.rows, table.cols,
                  IF table.has_headers THEN "has" ELSE "lacks",
                  IF table.has_caption THEN "has" ELSE "lacks">>,
                IF table.has_headers /\ table.has_caption THEN "Pass" ELSE "Warning")
    IN  ForEach(tables, Body)

\* sum(elements['inputs'].values())
TotalInputs(elements) ==
    elements.inputs.text + elements.inputs.password + elements.inputs.email
    + elements.inputs.checkbox + elements.inputs.radio + elements.inputs.submit

\* TestCaseGenerator._generate_interactive_element_test_cases
InteractiveSteps(elements) ==
    Add(<<"Verify form elements presence">>,
        <<"Check presence of interactive elements">>,
        <<"Page should have necessary interactive elements">>,
        <<"Found", elements.buttons, TotalInputs(elements), elements.select,
          elements.textarea>>,
        IF TotalInputs(elements) > 0 THEN "Pass" ELSE "Info")

\* TestCaseGenerator._generate_seo_test_cases
SeoSteps(seo) ==
    Add(<<"Verify SEO basics">>,
        <<"Check basic SEO elements">>,
        <<"Page should have basic SEO elements">>,
        <<IF seo.canonical THEN "Has" ELSE "Missing",
          IF seo.meta_description THEN "Has" ELSE "Missing",
          "Image alt text ratio: ", FormatPercent0(seo.img_alt_ratio)>>,
        IF seo.canonical /\ seo.meta_description /\ RatioAbove80(seo.img_alt_ratio)
        THEN "Pass" ELSE "Warning")

\* TestCaseGenerator._generate_security_test_cases
SecuritySteps(security) ==
    Add(<<"Verify security measures">>,
        <<"Check security features">>,
        <<"Page should implement basic security measures">>,
        <<"CSRF protection: ", IF security.csrf_token THEN "Present" ELSE "Missing",
          "External links: ", security.external_links,
          "Password fields: ", security.password_inputs>>,
        IF security.csrf_token \/ security.password_inputs = 0 THEN "Pass" ELSE "Warning")

\* TestCaseGenerator._generate_social_media_test_cases; the tag dicts are
\* modelled by their key sets
SocialSteps(social) ==
    LET og_tags == IF HasKey(social, "og_tags") THEN social.og_tags ELSE {}
        twitter_tags == IF HasKey(social, "twitter_tags") THEN social.twitter_tags ELSE {}
    IN  Add(<<"Verify social media metadata">>,
            <<"Check social media meta tags">>,
            <<"Page should have social media meta tags">>,
            <<"OpenGraph tags: ", Cardinality(og_tags),
              "Twitter cards: ", Cardinality(twitter_tags)>>,
            IF og_tags # {} \/ twitter_tags # {} THEN "Pass" ELSE "Info")

\* TestCaseGenerator.generate_structure_test_cases
generate_structure_test_cases(st) ==
    LET meta == IF HasKey(st, "meta") THEN st.meta ELSE [x \in {} |-> None] IN
    ThenAll(<<
        IF HasKey(st, "title")
        THEN Add(<<"Verify page title">>,
                 <<"Check if page has a title">>,
                 <<"Page should have a title">>,
                 <<"Page title is ", st.title>>,
                 IF Truthy(st.title) THEN "Pass" ELSE "Fail")
        ELSE Skip,
        MetaSteps(meta),
        ViewportSteps(meta),
        ResourceSteps(st),
        IF HasKey(st, "tables") THEN TableSteps(st.tables) ELSE Skip,
        IF HasKey(st, "interactive_elements")
        THEN InteractiveSteps(st.interactive_elements) ELSE Skip,
        IF HasKey(st, "seo_elements") THEN SeoSteps(st.seo_elements) ELSE Skip,
        IF HasKey(st, "security_headers") THEN SecuritySteps(st.security_headers) ELSE Skip,
        IF HasKey(st, "social_meta") THEN SocialSteps(st.social_meta) ELSE Skip
    >>)

\* generate_accessibility_test_cases that fails the multiple-H1 rule from one H1 on
generate_accessibility_test_cases_OneIsMultiple(st) ==
    IF ~HasKey(st, "images") THEN Raise("KeyError")
    ELSE
    LET images_without_alt == Cardinality({i \in DOMAIN st.images : ~Truthy(st.images[i].alt)})
        h1 == IF HasKey(st, "headings") /\ HasKey(st.headings, "h1")
              THEN st.headings.h1 ELSE <<>>
    IN
    Then(Add(<<"Verify image alt texts">>,
             <<"Check if all images have alt text">>,
             <<"All images should have alt text">>,
             IF images_without_alt = 0 THEN <<"All images have alt text">>
             ELSE <<"images missing alt text", images_without_alt>>,
             IF images_without_alt = 0 THEN "Pass" ELSE "Fail"),
    IF ~HasKey(st, "headings") THEN Raise("KeyError")
    ELSE
    ThenAll(<<
        Add(<<"Verify heading hierarchy">>,
            <<"Check if page has proper heading structure starting with H1">>,
            <<"Page should have at least one H1 heading">>,
            IF Len(h1) > 0 THEN <<"Found H1 heading">> ELSE <<"No H1 heading found">>,
            IF Len(h1) > 0 THEN "Pass" ELSE "Fail"),
        Add(<<"Check for multiple H1 headings">>,
            <<"Verify page has only one main H1 heading">>,
            <<"Page should have only one H1 heading">>,
            <<"Found H1 heading(s)", Len(h1)>>,
            IF ~(Len(h1) >= 1) THEN "Pass" ELSE "Fail"),
        IF HasKey(st, "landmarks")
        THEN Add(<<"Verify ARIA landmarks">>,
                 <<"Check for presence of ARIA landmarks">>,
                 <<"Page should have proper ARIA landmarks">>,
                 <<"Found ARIA landmarks", Len(st.landmarks)>>,
                 IF st.landmarks # <<>> THEN "Pass" ELSE "Fail")
        ELSE Skip
    >>))

\* TestCaseGenerator.generate_accessibility_test_cases
generate_accessibility_test_cases(st) ==
    IF ~HasKey(st, "images") THEN Raise("KeyError")
    ELSE
    LET images_without_alt == Cardinality({i \in DOMAIN st.images : ~Truthy(st.images[i].alt)})
        h1 == IF HasKey(st, "headings") /\ HasKey(st.headings, "h1")
              THEN st.headings.h1 ELSE <<>>
    IN
    Then(Add(<<"Verify image alt texts">>,
             <<"Check if all images have alt text">>,
             <<"All images should have alt text">>,
             IF images_without_alt = 0 THEN <<"All images have alt text">>
             ELSE <<"images missing alt text", images_without_alt>>,
             IF images_without_alt = 0 THEN "Pass" ELSE "Fail"),
    IF ~HasKey(st, "headings") THEN Raise("KeyError")
    ELSE
    ThenAll(<<
        Add(<<"Verify heading hierarchy">>,
            <<"Check if page has proper heading structure starting with H1">>,
            <<"Page should have at least one H1 heading">>,
            IF Len(h1) > 0 THEN <<"Found H1 heading">> ELSE <<"No H1 heading found">>,
            IF Len(h1) > 0 THEN "Pass" ELSE "Fail"),
        Add(<<"Check for multiple H1 headings">>,
            <<"Verify page has only one main H1 heading">>,
            <<"Page should have only one H1 heading">>,
            <<"Found H1 heading(s)", Len(h1)>>,
            IF ~(Len(h1) > 1) THEN "Pass" ELSE "Fail"),
        IF HasKey(st, "landmarks")
        THEN Add(<<"Verify ARIA landmarks">>,
                 <<"Check for presence of ARIA landmarks">>,
                 <<"Page should have proper ARIA landmarks">>,
                 <<"Found ARIA landmarks", Len(st.landmarks)>>,
                 IF st.landmarks # <<>> THEN "Pass" ELSE "Fail")
        ELSE Skip
    >>))

----------------------------------------------------------------------------
(* generate_language_test_cases *)

(* A language code is the tuple of its subtags: 'en-US' is <<"en", "US">>  *)
(* and '' is <<>>.  A confidence is an integer number of 128ths: on these   *)
(* floats the sums, the means and the comparisons of the code are exact or *)
(* correctly rounded, and the operators below compute what the code does.  *)
\* None where a language code is expected: the lang attribute is missing
NoneLang == <<None>>
LangTruthy(code) == code # <<>> /\ code # NoneLang
\* code.split('-')[0]
SplitDash0(code) == IF code = <<>> THEN "" ELSE code[1]

\* confidence > 0.8, the confidence 1.0 being 128
Above80(conf) == 10 * conf > 8 * 128

\* str.lower() on the charset names of the model
Lower(c) ==
    CASE c = "UTF-8" -> "utf-8"
      [] c = "Windows-1252" -> "windows-1252"
      [] OTHER -> c

\* direction.upper()
UpperDirection(d) ==
    CASE d = "ltr" -> "LTR"
      [] d = "rtl" -> "RTL"
      [] OTHER -> d

\* f'{confidence:.1%}' of the float nearest num/den 128ths, in tenths of a
\* percent.  The format multiplies the float by 100 and rounds the product to
\* one decimal, a tie going to the even neighbour.  The exact value is a tie
\* only when it is m/16 or m/80 in lowest terms.  m/16 is a float, and so is
\* its product by 100.  The float nearest m/80 lies r or r - 5 fifths of its
\* last binary place off m/80, r being the residue of m * 2^t modulo 5 with
\* 2^(52 - t) the power of two next below m/5; 100 times that float is not a
\* float when it lies two fifths off and the product has two more binary
\* digits than m/5, and the nearest float is then above the tie (r = 3) or
\* below it (r = 2).
FormatMeanPercent1(mean) ==
    LET RECURSIVE GCD(_, _)
        GCD(a, b) == IF b = 0 THEN a ELSE GCD(b, a % b)
        \* [pw, lg]: the largest power of two pw = 2^lg with 5 * pw <= M
        RECURSIVE Exponent(_, _, _)
        Exponent(M, pw, lg) ==
            IF 10 * pw <= M THEN Exponent(M, 2 * pw, lg + 1) ELSE [pw |-> pw, lg |-> lg]
        sign == IF mean.num < 0 THEN -1 ELSE 1
        A == sign * mean.num
        \* 1000 * A / (128 * den) = 125 * A / (16 * den)
        q == (125 * A) \div (16 * mean.den)
        rem == (125 * A) % (16 * mean.den)
        g == GCD(A, 128 * mean.den)
        m == A \div g
        lowest_den == (128 * mean.den) \div g
        ex == Exponent(8 * m, 1, 0)
        t == 55 - ex.lg
        r == (m * <<1, 2, 4, 3>>[(t % 4) + 1]) % 5
        two_more_digits == 5 * m < 4 * ex.pw
        half_even == IF q % 2 = 0 THEN q ELSE q + 1
    IN  sign * (IF 2 * rem > 16 * mean.den THEN q + 1
                ELSE IF 2 * rem < 16 * mean.den THEN q
                ELSE IF lowest_den % 5 # 0 THEN half_even
                ELSE IF two_more_digits /\ r = 3 THEN q + 1
                ELSE IF two_more_digits /\ r = 2 THEN q
                ELSE half_even)

\* f'{confidence:.1%}' of a confidence, in tenths of a percent
FormatPercent1(conf) == FormatMeanPercent1(Ratio(conf, 1))

\* the names of the other languages with their confidences
OtherLangNames(other_langs) ==
    [i \in DOMAIN other_langs |->
        <<other_langs[i].name, FormatMeanPercent1(other_langs[i].confidence)>>]

LanguageTail(la, declared, detected) ==
    IF ~HasKey(la, "other_languages") THEN Raise("KeyError")
    ELSE
    LET other_langs == la.other_languages
        elements == IF HasKey(la, "language_elements") THEN la.language_elements
                    ELSE [x \in {} |-> <<>>]
        lang_attrs == IF HasKey(elements, "lang_attributes") THEN elements.lang_attributes
                      ELSE <<>>
        translation_links == IF HasKey(elements, "translation_links")
                             THEN elements.translation_links ELSE <<>>
        charset == IF HasKey(la, "charset") THEN la.charset ELSE "utf-8"
        locale_info == DictGet(la, "locale_info", EmptyDict)
    IN
    Then(IF other_langs # <<>>
         THEN Add(<<"Check multi-language content">>,
                  <<"Analyze content for multiple languages">>,
                  <<"Document should consistently use declared language">>,
                  <<"Found content in other languages: ", OtherLangNames(other_langs)>>,
                  "Info")
         ELSE Skip,
    IF ~HasKey(la, "direction") THEN Raise("KeyError")
    ELSE
    Then(Add(<<"Verify text direction">>,
             <<"Check if text direction is appropriate for the language">>,
             <<"Text direction should match language requirements">>,
             <<"Text direction is ", UpperDirection(la.direction)>>,
             "Pass"),
    IF charset = None THEN Raise("AttributeError")
    ELSE
    ThenAll(<<
        Add(<<"Verify character encoding">>,
            <<"Check character encoding declaration">>,
            <<"Page should use UTF-8 or appropriate encoding">>,
            <<"Character encoding: ", charset>>,
            IF Lower(charset) \in {"utf-8", "utf8"} THEN "Pass" ELSE "Warning"),
        Add(<<"Check language annotations">>,
            <<"Verify language attributes on elements">>,
            <<"Multi-language content should be properly marked">>,
            <<"Found elements with language attributes", Len(lang_attrs)>>,
            IF Len(lang_attrs) > 0 \/ other_langs = <<>> THEN "Pass" ELSE "Warning"),
        IF translation_links # <<>>
        THEN Add(<<"Check translation support">>,
                 <<"Verify language switching options">>,
                 <<"Multi-language sites should offer language selection">>,
                 <<"Found language switcher links", Len(translation_links)>>,
                 IF Len(translation_links) > 0 THEN "Pass" ELSE "Info")
        ELSE Skip,
        IF locale_info # EmptyDict
        THEN Add(<<"Verify locale information">>,
                 <<"Check locale-specific content">>,
                 <<"Content should be properly localized">>,
                 <<"Language: ", DictGet(locale_info, "language_name", "Unknown"),
                   "Territory: ", DictGet(locale_info, "territory", "Not specified"),
                   "Script: ", DictGet(locale_info, "script", "Not specified")>>,
                 "Info")
        ELSE Skip
    >>)))

\* TestCaseGenerator.generate_language_test_cases
generate_language_test_cases(la) ==
    IF ~HasKey(la, "declared_language") \/ ~HasKey(la, "detected_language")
    THEN Raise("KeyError")
    ELSE
    LET declared == la.declared_language
        detected == la.detected_language
    IN
    IF IsNone(declared) THEN Raise("TypeError")
    ELSE IF LangTruthy(declared.code) /\ ~HasKey(declared, "name") THEN Raise("KeyError")
    ELSE
    Then(Add(<<"Verify HTML language declaration">>,
             <<"Check if page has proper language declaration">>,
             <<"Page should have valid language declaration">>,
             IF LangTruthy(declared.code)
             THEN <<"Declared language: ", declared.name, declared.code>>
             ELSE <<"No language declaration found">>,
             IF LangTruthy(declared.code) THEN "Pass" ELSE "Fail"),
    IF IsNone(detected) THEN Raise("TypeError")
    ELSE
    Then(Add(<<"Verify content language">>,
             <<"Detect main content language">>,
             <<"Content language should be detectable">>,
             <<"Detected language: ", detected.name, detected.code,
               FormatPercent1(detected.confidence)>>,
             IF Above80(detected.confidence) THEN "Pass" ELSE "Warning"),
    Then(IF LangTruthy(declared.code) /\ detected.code # ""
         THEN IF ~HasKey(declared, "name") THEN Raise("KeyError")
              ELSE Add(<<"Verify language consistency">>,
                       <<"Compare declared vs detected language">>,
                       <<"Declared language should match content language">>,
                       <<"Declared: ", declared.name, declared.code,
                         "Detected: ", detected.name, detected.code>>,
                       IF SplitDash0(declared.code) = detected.code THEN "Pass" ELSE "Fail")
         ELSE Skip,
         LanguageTail(la, declared, detected))))

----------------------------------------------------------------------------
(* A fetched text is [ws, nbsp, soup]: ws ASCII white-space characters and  *)
(* nbsp white-space characters outside ASCII ('\xa0') around the document  *)
(* that parses to soup, NoneDict when there is no markup at all.           *)
Text(ws, soup) == [ws |-> ws, nbsp |-> 0, soup |-> soup]
\* not text
StrEmpty(text) == text.ws = 0 /\ text.nbsp = 0 /\ IsNone(text.soup)
\* a strip that leaves the text as it is
Strip_Identity(text) == text
\* text.strip(): str.strip removes every white-space character, '\xa0' too
Strip(text) == [ws |-> 0, nbsp |-> 0, soup |-> text.soup]

----------------------------------------------------------------------------
(* WebParser (parser.py).  The parsed document ("soup") is a record of the *)
(* elements and attributes the extraction functions read.                  *)

\* the document of a text without markup (white space only): no element at all
EmptySoup ==
    [html |-> FALSE, lang |-> NoneLang, dir |-> None, alternates |-> <<>>,
     content_language |-> NoneDict, title |-> None,
     subheadings |-> [h2 |-> <<>>, h3 |-> <<>>, h4 |-> <<>>, h5 |-> <<>>, h6 |-> <<>>],
     lists |-> [ul |-> 0, ol |-> 0, dl |-> 0],
     meta |-> [description |-> NoneDict, keywords |-> NoneDict, viewport |-> NoneDict,
               charset |-> NoneDict, robots |-> NoneDict],
     images |-> <<>>, h1 |-> <<>>, scripts |-> [external |-> 0, inline |-> 0],
     stylesheets |-> [linked |-> 0, unlinked |-> 0, style_tags |-> 0],
     elements |-> <<>>, tables |-> <<>>, anchors |-> <<>>, forms |-> <<>>,
     buttons |-> 0, canonical |-> FALSE, og |-> {}, twitter |-> {},
     text_runs |-> <<>>, confidence |-> 0, sample_confidences |-> <<>>,
     encoding |-> "ascii"]

\* BeautifulSoup(html_content, 'lxml') on a non-empty text.  lxml drops ASCII
\* white space and wraps any other character of a text without markup,
\* '\xa0' too, in html, body and p elements.
BeautifulSoup(html_content) ==
    IF ~IsNone(html_content.soup) THEN html_content.soup
    ELSE IF html_content.nbsp > 0 THEN [EmptySoup EXCEPT !.html = TRUE, !.encoding = "utf-8"]
    ELSE EmptySoup

\* a constructor that checks the content only
WebParser_init_UrlUnchecked(html_content, base_url) ==
    IF IsNone(html_content) \/ StrEmpty(html_content) THEN "ValueError" ELSE None

\* WebParser.__init__: the exception it raises, or "None"
WebParser_init(html_content, base_url) ==
    IF IsNone(html_content) \/ StrEmpty(html_content) THEN "ValueError"
    ELSE IF IsNone(base_url) \/ ~UrlTruthy(base_url) THEN "ValueError"
    ELSE None

\* the message of the ValueError WebParser.__init__ raises
WebParser_init_message(html_content, base_url) ==
    IF IsNone(html_content) \/ StrEmpty(html_content)
    THEN "HTML content cannot be None or empty"
    ELSE "Base URL cannot be None or empty"

\* the exception WebParser.extract_links raises, or "None": line 22 parses the
\* base URL outside the try statements
extract_links_raises(soup, base_url) ==
    IF urlparse_raises(base_url) THEN "ValueError" ELSE None

\* WebParser.extract_links when line 22 does not raise; an anchor's href is
\* NoneDict when it has none.  An anchor whose href urljoin refuses is skipped
\* (lines 29-33); a link whose absolute URL urlparse refuses is external
\* (lines 36-40).
extract_links(soup, base_url) ==
    LET usable == SelectSeq(soup.anchors,
                            LAMBDA a : /\ ~IsNone(a.href) /\ UrlTruthy(a.href)
                                       /\ ~urljoin_raises(base_url, a.href))
        Link(a) ==
            LET absolute_url == urljoin(base_url, a.href) IN
            [url  |-> absolute_url,
             text |-> a.text,
             type |-> IF urlparse_raises(absolute_url) THEN "external"
                      ELSE IF absolute_url.netloc = base_url.netloc THEN "internal"
                      ELSE "external"]
    IN  [i \in DOMAIN usable |-> Link(usable[i])]

\* str.upper() on the method names of the model
Upper(m) ==
    CASE m = "get" -> "GET"
      [] m = "post" -> "POST"
      [] m = "Post" -> "POST"
      [] m = "put" -> "PUT"
      [] OTHER -> m

\* attr.get(name, default) for an attribute that is "None" when absent
GetAttr(v, default) == IF v = None THEN default ELSE v

\* extract_forms keeping the action attribute as written, '' when absent
extract_forms_RawAction(soup, base_url) ==
    [i \in DOMAIN soup.forms |->
        [action |-> IF IsNone(soup.forms[i].action) THEN Url("", "", EmptyPath)
                    ELSE soup.forms[i].action,
         method |-> Upper(GetAttr(soup.forms[i].method, "get")),
         fields |-> [j \in DOMAIN soup.forms[i].fields |->
                        [type     |-> GetAttr(soup.forms[i].fields[j].type, "text"),
                         name     |-> GetAttr(soup.forms[i].fields[j].name, ""),
                         id       |-> GetAttr(soup.forms[i].fields[j].id, ""),
                         required |-> soup.forms[i].fields[j].required # None]]]]

\* extract_forms reading required by the truth of the attribute's value
extract_forms_RequiredByValue(soup, base_url) ==
    [i \in DOMAIN soup.forms |->
        [action |-> urljoin(base_url, IF IsNone(soup.forms[i].action) THEN Url("", "", EmptyPath)
                                      ELSE soup.forms[i].action),
         method |-> Upper(GetAttr(soup.forms[i].method, "get")),
         fields |-> [j \in DOMAIN soup.forms[i].fields |->
                        [type     |-> GetAttr(soup.forms[i].fields[j].type, "text"),
                         name     |-> GetAttr(soup.forms[i].fields[j].name, ""),
                         id       |-> GetAttr(soup.forms[i].fields[j].id, ""),
                         required |-> Truthy(soup.forms[i].fields[j].required)]]]]

\* the exception WebParser.extract_forms raises, or "None": the urljoin of
\* line 56 is not guarded
extract_forms_raises(soup, base_url) ==
    IF \E i \in DOMAIN soup.forms :
          urljoin_raises(base_url, IF IsNone(soup.forms[i].action) THEN Url("", "", EmptyPath)
                                   ELSE soup.forms[i].action)
    THEN "ValueError" ELSE None

\* WebParser.extract_forms when no urljoin raises
extract_forms(soup, base_url) ==
    LET Field(f) == [type     |-> GetAttr(f.type, "text"),
                     name     |-> GetAttr(f.name, ""),
                     id       |-> GetAttr(f.id, ""),
                     required |-> f.required # None]
        Form(form) ==
            [action |-> urljoin(base_url, IF IsNone(form.action) THEN Url("", "", EmptyPath)
                                          ELSE form.action),
             method |-> Upper(GetAttr(form.method, "get")),
             fields |-> [i \in DOMAIN form.fields |-> Field(form.fields[i])]]
    IN  [i \in DOMAIN soup.forms |-> Form(soup.forms[i])]

\* every input / textarea / select element of the document, in document order
RECURSIVE AllFields(_)
AllFields(fs) == IF fs = <<>> THEN <<>> ELSE Head(fs).fields \o AllFields(Tail(fs))

CountIf(s, P(_)) == Cardinality({i \in DOMAIN s : P(s[i])})

\* WebParser._extract_landmarks
SemanticElements == <<"header", "nav", "main", "article", "aside", "footer", "section">>
LandmarkRoles == <<"banner", "navigation", "main", "complementary", "contentinfo">>

RECURSIVE Flatten(_)
Flatten(ss) == IF ss = <<>> THEN <<>> ELSE Head(ss) \o Flatten(Tail(ss))

extract_landmarks(soup) ==
    LET ByTag(t) == SelectSeq(soup.elements, LAMBDA el : el.tag = t)
        ByRole(r) == SelectSeq(soup.elements, LAMBDA el : el.role = r)
        Mark(el, role) == [type |-> el.tag, role |-> role, aria_label |-> el.aria_label]
    IN  Flatten([k \in DOMAIN SemanticElements |->
                    [i \in DOMAIN ByTag(SemanticElements[k]) |->
                        Mark(ByTag(SemanticElements[k])[i], ByTag(SemanticElements[k])[i].role)]])
        \o
        Flatten([k \in DOMAIN LandmarkRoles |->
                    [i \in DOMAIN ByRole(LandmarkRoles[k]) |->
                        Mark(ByRole(LandmarkRoles[k])[i], LandmarkRoles[k])]])

\* WebParser._analyze_tables
analyze_tables(soup) ==
    LET Table(t) == [has_caption |-> t.caption,
                     has_headers |-> t.th > 0,
                     rows        |-> t.tr,
                     cols        |-> IF t.tr > 0 THEN t.td \div t.tr ELSE 0,
                     has_scope   |-> t.th_scope]
    IN  [i \in DOMAIN soup.tables |-> Table(soup.tables[i])]

\* WebParser._extract_interactive_elements
extract_interactive_elements(soup) ==
    LET fields == AllFields(soup.forms)
        Inputs(t) == CountIf(fields, LAMBDA f : f.tag = "input" /\ f.type = t)
    IN  [buttons  |-> soup.buttons,
         inputs   |-> [text |-> Inputs("text"), password |-> Inputs("password"),
                       email |-> Inputs("email"), checkbox |-> Inputs("checkbox"),
                       radio |-> Inputs("radio"), submit |-> Inputs("submit")],
         select   |-> CountIf(fields, LAMBDA f : f.tag = "select"),
         textarea |-> CountIf(fields, LAMBDA f : f.tag = "textarea"),
         \* find_all(['a', 'button', 'input', {'type': 'submit'}]): the elements
         \* named a, button or input
         clickable |-> Len(soup.anchors) + soup.buttons
                       + CountIf(fields, LAMBDA f : f.tag = "input")]

\* _extract_seo_elements with the ratio 0 for a page without images
extract_seo_elements_ZeroWhenEmpty(soup) ==
    [canonical        |-> soup.canonical,
     h1_count         |-> Len(soup.h1),
     meta_description |-> ~IsNone(soup.meta.description),
     meta_keywords    |-> ~IsNone(soup.meta.keywords),
     img_alt_ratio    |-> IF soup.images # <<>>
                          THEN Ratio(CountIf(soup.images, LAMBDA img : Truthy(img.alt)),
                                     Len(soup.images))
                          ELSE Ratio(0, 1)]

\* WebParser._extract_seo_elements
extract_seo_elements(soup) ==
    [canonical        |-> soup.canonical,
     h1_count         |-> Len(soup.h1),
     meta_description |-> ~IsNone(soup.meta.description),
     meta_keywords    |-> ~IsNone(soup.meta.keywords),
     img_alt_ratio    |-> IF soup.images # <<>>
                          THEN Ratio(CountIf(soup.images, LAMBDA img : Truthy(img.alt)),
                                     Len(soup.images))
                          ELSE Ratio(1, 1)]

CsrfNames == {"csrf_token", "_token", "_csrf"}

\* the words of the model's URLs that begin with 'http'
HttpWords == {"http", "https", "https.html", "http-status.html"}

\* href.startswith(('http', 'https')), a test on the text of the href: the
\* scheme when there is one, else the first segment of a relative path
StartsWithHttp(href) ==
    IF href.scheme # "" THEN href.scheme \in HttpWords
    ELSE /\ href.netloc = ""
         /\ ~href.path.abs
         /\ href.path.segs # <<>>
         /\ href.path.segs[1] \in HttpWords

\* the exception WebParser._extract_security_elements raises, or "None": the
\* comprehension parses the href of every anchor that starts with 'http', and
\* then the base URL
extract_security_elements_raises(soup, base_url) ==
    IF \E i \in DOMAIN soup.anchors :
          /\ ~IsNone(soup.anchors[i].href)
          /\ StartsWithHttp(soup.anchors[i].href)
          /\ (urlparse_raises(soup.anchors[i].href) \/ urlparse_raises(base_url))
    THEN "ValueError" ELSE None

\* WebParser._extract_security_elements when no urlparse raises
extract_security_elements(soup, base_url) ==
    LET fields == AllFields(soup.forms) IN
    [csrf_token      |-> CountIf(fields, LAMBDA f : f.tag = "input" /\ f.name \in CsrfNames) > 0,
     external_links  |-> CountIf(soup.anchors,
                            LAMBDA a : /\ ~IsNone(a.href)
                                       /\ StartsWithHttp(a.href)
                                       /\ a.href.netloc # base_url.netloc),
     password_inputs |-> CountIf(fields, LAMBDA f : f.tag = "input" /\ f.type = "password"),
     forms_with_csrf |-> CountIf(soup.forms,
                            LAMBDA form : CountIf(form.fields,
                                LAMBDA f : f.tag = "input" /\ f.name \in CsrfNames) > 0)]

\* the value extract_page_structure stores for a meta tag: None without the
\* tag, else its content attribute or ''
MetaContent(tag) == IF IsNone(tag) THEN None ELSE GetAttr(tag.content, "")

\* the exception WebParser.extract_page_structure raises, or "None"
extract_page_structure_raises(soup, base_url) ==
    extract_security_elements_raises(soup, base_url)

\* WebParser.extract_page_structure when it does not raise
extract_page_structure(soup, base_url) ==
    [title    |-> soup.title,
     headings |-> [h1 |-> soup.h1] @@ soup.subheadings,
     meta     |-> [description |-> MetaContent(soup.meta.description),
                   keywords    |-> MetaContent(soup.meta.keywords),
                   viewport    |-> MetaContent(soup.meta.viewport),
                   charset     |-> MetaContent(soup.meta.charset),
                   robots      |-> MetaContent(soup.meta.robots)],
     images   |-> [i \in DOMAIN soup.images |->
                     [src    |-> DictGet(soup.images[i], "src", None),
                      alt    |-> GetAttr(soup.images[i].alt, ""),
                      title  |-> DictGet(soup.images[i], "title", ""),
                      width  |-> DictGet(soup.images[i], "width", ""),
                      height |-> DictGet(soup.images[i], "height", "")]],
     scripts  |-> [total    |-> soup.scripts.external + soup.scripts.inline,
                   external |-> soup.scripts.external,
                   inline   |-> soup.scripts.inline],
     stylesheets |-> [total    |-> soup.stylesheets.linked + soup.stylesheets.unlinked,
                      external |-> soup.stylesheets.linked,
                      inline   |-> soup.stylesheets.style_tags],
     language |-> IF soup.html THEN soup.lang ELSE NoneLang,
     landmarks |-> extract_landmarks(soup),
     lists    |-> soup.lists,
     tables   |-> analyze_tables(soup),
     interactive_elements |-> extract_interactive_elements(soup),
     seo_elements     |-> extract_seo_elements(soup),
     security_headers |-> extract_security_elements(soup, base_url),
     social_meta      |-> [og_tags |-> soup.og, twitter_tags |-> soup.twitter]]

----------------------------------------------------------------------------
(* LanguageAnalyzer (language_analyzer.py).  The analyzable text of a      *)
(* document is a sequence of runs [lang, n]: n characters written in lang. *)
(* langid.classify answers with the language most of the sample's          *)
(* characters are written in.                                              *)

\* LANGUAGE_NAMES; a native name is written as json.dumps writes it, its
\* characters outside ASCII as \uXXXX
LANGUAGE_NAMES ==
    [en |-> [name |-> "English", native |-> "English"],
     es |-> [name |-> "Spanish", native |-> "Espa\\u00f1ol"],
     fr |-> [name |-> "French", native |-> "Fran\\u00e7ais"],
     de |-> [name |-> "German", native |-> "Deutsch"],
     it |-> [name |-> "Italian", native |-> "Italiano"],
     pt |-> [name |-> "Portuguese", native |-> "Portugu\\u00eas"],
     ru |-> [name |-> "Russian", native |-> "\\u0420\\u0443\\u0441\\u0441\\u043a\\u0438\\u0439"],
     ja |-> [name |-> "Japanese", native |-> "\\u65e5\\u672c\\u8a9e"],
     ko |-> [name |-> "Korean", native |-> "\\ud55c\\uad6d\\uc5b4"],
     zh |-> [name |-> "Chinese", native |-> "\\u4e2d\\u6587"],
     ar |-> [name |-> "Arabic", native |-> "\\u0627\\u0644\\u0639\\u0631\\u0628\\u064a\\u0629"],
     hi |-> [name |-> "Hindi", native |-> "\\u0939\\u093f\\u0928\\u094d\\u0926\\u0940"],
     nl |-> [name |-> "Dutch", native |-> "Nederlands"],
     pl |-> [name |-> "Polish", native |-> "Polski"],
     tr |-> [name |-> "Turkish", native |-> "T\\u00fcrk\\u00e7e"],
     vi |-> [name |-> "Vietnamese", native |-> "Ti\\u1ebfng Vi\\u1ec7t"],
     th |-> [name |-> "Thai", native |-> "\\u0e44\\u0e17\\u0e22"],
     sv |-> [name |-> "Swedish", native |-> "Svenska"],
     da |-> [name |-> "Danish", native |-> "Dansk"],
     fi |-> [name |-> "Finnish", native |-> "Suomi"]]

\* LANGUAGE_NAMES.get(code, {}).get('name') and .get('native'): None without the code
LanguageName(code) == IF HasKey(LANGUAGE_NAMES, code) THEN LANGUAGE_NAMES[code].name ELSE None
LanguageNative(code) == IF HasKey(LANGUAGE_NAMES, code) THEN LANGUAGE_NAMES[code].native ELSE None

RECURSIVE TextLen(_)
TextLen(runs) == IF runs = <<>> THEN 0 ELSE Head(runs).n + TextLen(Tail(runs))

\* number of characters of lang among the characters a+1..b of the text
RECURSIVE CharsOf(_, _, _, _)
CharsOf(runs, lang, a, b) ==
    IF runs = <<>> \/ b <= 0 THEN 0
    ELSE LET n == Head(runs).n
             lo == IF a > 0 THEN a ELSE 0
             hi == Min(b, n)
             here == IF Head(runs).lang = lang /\ hi > lo THEN hi - lo ELSE 0
         IN  here + CharsOf(Tail(runs), lang, a - n, b - n)

Langs(runs) == {runs[i].lang : i \in DOMAIN runs}

\* index of the first run written in lang
FirstRun(runs, lang) == CHOOSE i \in DOMAIN runs :
    runs[i].lang = lang /\ \A j \in 1..(i - 1) : runs[j].lang # lang

\* langid.classify on the characters a+1..b: the language code it answers
classify(runs, a, b) ==
    CHOOSE l \in Langs(runs) :
        \A m \in Langs(runs) :
            \/ CharsOf(runs, l, a, b) > CharsOf(runs, m, a, b)
            \/ /\ CharsOf(runs, l, a, b) = CharsOf(runs, m, a, b)
               /\ FirstRun(runs, l) <= FirstRun(runs, m)

\* LanguageAnalyzer._is_rtl_language
is_rtl_language(lang_code) ==
    lang_code \in {"ar", "fa", "he", "ur", "arc", "az", "dv", "ku", "nqo"}

\* number of samples range(0, length, step) takes
NumSamples(length, step) == (length + step - 1) \div step

\* sum(confs) / len(confs): the sum of floats that are 128ths is exact and
\* its quotient is the float nearest the fraction, so that two means are
\* equal, or one the greater, as their fractions are.  The fraction of
\* 128ths in lowest terms.
Mean(confs) ==
    LET RECURSIVE SumSeq(_)
        SumSeq(s) == IF s = <<>> THEN 0 ELSE Head(s) + SumSeq(Tail(s))
        RECURSIVE GCD(_, _)
        GCD(a, b) == IF b = 0 THEN a ELSE GCD(b, a % b)
        total == SumSeq(confs)
        g == GCD(IF total < 0 THEN -total ELSE total, Len(confs))
    IN  Ratio(total \div g, Len(confs) \div g)

\* insert r into the list sorted by (count, confidence) descending, after its equals
RECURSIVE InsertSorted(_, _)
InsertSorted(sorted, r) ==
    IF sorted = <<>> THEN <<r>>
    ELSE LET h == Head(sorted)
             MeanGreater(a, b) == a.num * b.den > b.num * a.den
         IN
         IF r.count > h.count
            \/ (r.count = h.count /\ MeanGreater(r.confidence, h.confidence))
         THEN <<r>> \o sorted
         ELSE <<h>> \o InsertSorted(Tail(sorted), r)

RECURSIVE SortResults(_)
SortResults(rs) ==
    IF rs = <<>> THEN <<>>
    ELSE InsertSorted(SortResults(SubSeq(rs, 1, Len(rs) - 1)), rs[Len(rs)])

\* codes in order of first occurrence
RECURSIVE FirstOccurrences(_)
FirstOccurrences(codes) ==
    IF codes = <<>> THEN <<>>
    ELSE LET rest == FirstOccurrences(SubSeq(codes, 1, Len(codes) - 1))
             c == codes[Len(codes)]
         IN  IF c \in Range(rest) THEN rest ELSE Append(rest, c)

\* LanguageAnalyzer._detect_other_languages; confs[k] is the confidence
\* langid.classify answers on sample k, failing the samples on which it
\* raises: they are skipped.  The confidence of an entry is the mean of the
\* confidences of its samples.
detect_other_languages(runs, primary_lang, confs, chunks, failing) ==
    LET length == TextLen(runs) IN
    IF length < 50 THEN <<>>
    ELSE
    LET step == IF length \div chunks >= 1 THEN length \div chunks ELSE 1
        samples == [k \in 1..NumSamples(length, step) |->
                       IF k \in failing THEN None
                       ELSE classify(runs, (k - 1) * step, Min(k * step, length))]
        Counted(k) == samples[k] # None /\ samples[k] # primary_lang
        kept == SelectSeq([k \in DOMAIN samples |-> k], Counted)
        codes == FirstOccurrences([i \in DOMAIN kept |-> samples[kept[i]]])
        ConfsOf(code) ==
            LET mine == SelectSeq(kept, LAMBDA k : samples[k] = code) IN
            [i \in DOMAIN mine |-> confs[mine[i]]]
        Result(code) == [code       |-> code,
                         name       |-> GetAttr(LanguageName(code), "Unknown"),
                         native     |-> GetAttr(LanguageNative(code), "Unknown"),
                         count      |-> Len(ConfsOf(code)),
                         confidence |-> Mean(ConfsOf(code))]
    IN  SortResults([i \in DOMAIN codes |-> Result(codes[i])])

\* html_tag.get('lang', '') if html_tag else ''
GetLang(soup) == IF ~soup.html \/ soup.lang = NoneLang THEN <<>> ELSE soup.lang

\* LanguageAnalyzer._find_lang_attributes: every element that has a lang
\* attribute, the html element first
find_lang_attributes(soup) ==
    (IF soup.html /\ soup.lang # NoneLang THEN <<[tag |-> "html", lang |-> soup.lang]>>
     ELSE <<>>)
    \o SelectSeq([i \in DOMAIN soup.elements |->
                     [tag |-> soup.elements[i].tag, lang |-> soup.elements[i].lang]],
                 LAMBDA el : el.lang # NoneLang)

\* LanguageAnalyzer._find_dir_attributes
find_dir_attributes(soup) ==
    (IF soup.html /\ soup.dir # None THEN <<[tag |-> "html", dir |-> soup.dir]>> ELSE <<>>)
    \o SelectSeq([i \in DOMAIN soup.elements |->
                     [tag |-> soup.elements[i].tag, dir |-> soup.elements[i].dir]],
                 LAMBDA el : el.dir # None)

\* LanguageAnalyzer._find_multilingual_meta raises KeyError: link['href'] on
\* an alternate link without href, or ['content'] on a content-language meta
\* tag without content
find_multilingual_meta_raises(soup) ==
    \/ \E i \in DOMAIN soup.alternates : IsNone(soup.alternates[i].href)
    \/ ~IsNone(soup.content_language) /\ soup.content_language.content = None

\* LanguageAnalyzer._find_multilingual_meta; an alternate link is a link
\* element with rel alternate and an hreflang attribute
find_multilingual_meta(soup) ==
    [alternate_links  |-> [i \in DOMAIN soup.alternates |->
                              [href     |-> soup.alternates[i].href,
                               hreflang |-> soup.alternates[i].hreflang]],
     content_language |-> IF IsNone(soup.content_language) THEN None
                          ELSE soup.content_language.content]

\* the attribute values of the model in which
\* re.compile(r'lang|language|translate', re.I) finds a match
SwitcherWords == {"lang", "lang-fr", "Language", "translate-link"}

\* the words [a-z]{2}(?:-[A-Z]{2})? with re.I matches in full, among the
\* words of the model's URLs: every word of two letters ('up' as well as
\* 'fr'), and every word of two letters, a dash and two letters
LanguageSegments == {"fr", "en", "ar", "FR", "up", "en-US"}

\* re.compile(r'[?&]lang=|/[a-z]{2}(?:-[A-Z]{2})?/', re.I) finds a match in
\* the text of the href: a href without query matches on a two-letter word
\* between two slashes
HrefPatternMatches(href) ==
    \/ \E i \in 1..(Len(href.path.segs) - 1) :
          href.path.segs[i] \in LanguageSegments /\ (i > 1 \/ href.path.abs)
    \/ href.netloc \in LanguageSegments /\ href.path.abs

\* LanguageAnalyzer._find_translation_links: one pass per pattern.  A
\* pattern is handed to find_all as its attrs argument, so the first one
\* tests an attribute named class_, not the class of the anchor.
find_translation_links(soup) ==
    LET patterns == <<"class_", "id", "href">>
        Selected(pat, a) ==
            IF pat = "href" THEN ~IsNone(a.href) /\ HrefPatternMatches(a.href)
            ELSE HasKey(a.attrs, pat) /\ a.attrs[pat] \in SwitcherWords
        Entry(a) == [text |-> a.text,
                     href |-> IF IsNone(a.href) THEN Url("", "", EmptyPath) ELSE a.href,
                     lang |-> DictGet(a.attrs, "hreflang", "")]
        Pass(pat) == SelectSeq(soup.anchors, LAMBDA a : Selected(pat, a))
    IN  Flatten([k \in DOMAIN patterns |->
                    [i \in DOMAIN Pass(patterns[k]) |-> Entry(Pass(patterns[k])[i])]])

\* the elements _analyze_language_elements falls back to
NoLanguageElements ==
    [lang_attributes |-> <<>>, dir_attributes |-> <<>>, multilingual_meta |-> EmptyDict,
     translation_links |-> <<>>]

\* LanguageAnalyzer._analyze_language_elements; raises: one of the finders
\* raises an exception the document does not determine
analyze_language_elements(soup, raises) ==
    LET doc == IF IsNone(soup) THEN EmptySoup ELSE soup IN
    IF raises \/ find_multilingual_meta_raises(doc) THEN NoLanguageElements
    ELSE [lang_attributes   |-> find_lang_attributes(doc),
          dir_attributes    |-> find_dir_attributes(doc),
          multilingual_meta |-> find_multilingual_meta(doc),
          translation_links |-> find_translation_links(doc)]

\* charset_normalizer.detect on content.encode(): the encoding of the
\* document; without markup 'utf-8' for no bytes at all and for white space
\* with a character outside ASCII ('\xa0' is the bytes C2 A0), 'ascii' for
\* ASCII white space only
normalizer_detect(html_content) ==
    IF ~IsNone(html_content.soup) THEN html_content.soup.encoding
    ELSE IF html_content.nbsp > 0 THEN "utf-8"
    ELSE IF html_content.ws = 0 THEN "utf-8"
    ELSE "ascii"

\* _detect_charset without its except clause's default
detect_charset_NoDefault(html_content, raises) ==
    normalizer_detect(html_content)

\* LanguageAnalyzer._detect_charset; raises: the detection raises
detect_charset(html_content, raises) ==
    IF raises THEN "utf-8" ELSE normalizer_detect(html_content)

\* the exceptions one call of analyze_language meets: in langid.classify on
\* the full text, in langid.classify on the samples of the set samples, in a
\* finder of the language elements, in the charset detection
NoFaults == [classify |-> FALSE, samples |-> {}, elements |-> FALSE, charset |-> FALSE]

\* range(0, length, step) takes at most chunks + 2 samples of a text of 50
\* characters or more
AllSamples == 1..(8 + 2)

Faults == [classify : BOOLEAN, samples : {{}, {1}, AllSamples},
           elements : BOOLEAN, charset : BOOLEAN]

\* a value that is neither None nor a str
BytesContent == [bytes |-> TRUE]

IsStr(html_content) == "ws" \in DOMAIN html_content

\* LanguageAnalyzer.analyze_language lines 41-44: the exception it raises
analyze_language_raises(html_content) ==
    IF IsNone(html_content) \/ ~IsStr(html_content) THEN "ValueError" ELSE None

\* the declared_language entry of a partial result, with the code even when
\* no language is declared
DeclaredOnly_AlwaysCode(declared_lang) == [code |-> declared_lang]

\* the declared_language entry of a partial result
DeclaredOnly(declared_lang) ==
    IF LangTruthy(declared_lang) THEN [code |-> declared_lang] ELSE NoneDict

\* LanguageAnalyzer.analyze_language on a str, meeting the exceptions of faults
analyze_language(html_content, faults) ==
    LET soup == html_content.soup
        declared_lang == IF IsNone(soup) THEN <<>> ELSE GetLang(soup)
        runs == IF IsNone(soup) THEN <<>> ELSE soup.text_runs
    IN
    IF TextLen(runs) < 10
    THEN [error             |-> "Insufficient text content for language analysis",
          declared_language |-> DeclaredOnly(declared_lang),
          detected_language |-> NoneDict,
          other_languages   |-> <<>>,
          direction         |-> "ltr",
          language_elements |-> analyze_language_elements(soup, faults.elements),
          charset           |-> detect_charset(html_content, faults.charset)]
    ELSE IF faults.classify
    THEN [error             |-> <<"Language detection failed: ", "classify">>,
          declared_language |-> DeclaredOnly(declared_lang)]
    ELSE
    LET detected_lang == classify(runs, 0, TextLen(runs))
        confidence == soup.confidence
        \* the confidence langid.classify answers on sample k
        sample_confs == [k \in AllSamples |->
                            IF k \in DOMAIN soup.sample_confidences
                            THEN soup.sample_confidences[k]
                            ELSE soup.confidence]
        primary == SplitDash0(declared_lang)
    IN  [declared_language |->
            [code        |-> declared_lang,
             name        |-> IF LangTruthy(declared_lang)
                             THEN GetAttr(LanguageName(primary), "Not declared")
                             ELSE "Not declared",
             native_name |-> IF LangTruthy(declared_lang)
                             THEN GetAttr(LanguageNative(primary), "Not declared")
                             ELSE "Not declared"],
         detected_language |->
            [code        |-> detected_lang,
             name        |-> GetAttr(LanguageName(detected_lang), "Unknown"),
             native_name |-> GetAttr(LanguageNative(detected_lang), "Unknown"),
             confidence  |-> confidence],
         other_languages   |-> detect_other_languages(runs, detected_lang, sample_confs, 8,
                                                     faults.samples),
         direction         |-> IF is_rtl_language(detected_lang) THEN "rtl" ELSE "ltr",
         language_elements |-> analyze_language_elements(soup, faults.elements),
         charset           |-> detect_charset(html_content, faults.charset)]

----------------------------------------------------------------------------
(* WebCrawler (crawler.py) *)

DEFAULT_CONNECT_TIMEOUT == 5
DEFAULT_READ_TIMEOUT == 30
PROBE_TIMEOUT == 5

\* an exception object: its class and the text str(e) gives
Exc(cls, msg) == [cls |-> cls, msg |-> msg]
\* an HTTP response: status code, body text, and the URL of the last hop when
\* redirects were followed (NoneDict when response.history is empty)
Resp(status, text, redirect) == [status |-> status, text |-> text, redirect |-> redirect]
IsExc(outcome) == HasKey(outcome, "cls")

\* str(e) of the ValueError urlsplit raises
InvalidUrlMessage == "Invalid IPv6 URL"

\* the exception WebCrawler.__init__ raises, or NoneDict: line 31 parses the
\* base URL
WebCrawler_raises(base_url) ==
    IF urlparse_raises(base_url) THEN Exc("ValueError", InvalidUrlMessage) ELSE NoneDict

\* WebCrawler.__init__: the crawler, or [raised] when the constructor raises
WebCrawler(base_url, connect_timeout, read_timeout) ==
    IF ~IsNone(WebCrawler_raises(base_url))
    THEN [raised |-> WebCrawler_raises(base_url).cls]
    ELSE [base_url |-> base_url,
          domain   |-> base_url.netloc,
          timeouts |-> <<connect_timeout, read_timeout>>]

\* response.raise_for_status(): the exception raised, or NoneDict
raise_for_status(resp) ==
    IF 400 <= resp.status /\ resp.status < 600
    THEN Exc("HTTPError", "Client or Server Error")
    ELSE NoneDict

\* what a session.get followed by raise_for_status gives: the response, or
\* the exception raised by either
GetChecked(outcome) ==
    IF IsExc(outcome) THEN outcome
    ELSE IF ~IsNone(raise_for_status(outcome)) THEN raise_for_status(outcome)
    ELSE outcome

\* the except clauses of fetch_website_content, in source order
FetchClauses == <<"Timeout", "ConnectionError", "SSLError", "RequestException">>

\* a retry that keeps the timeouts of the first attempt
FetchRequest_SameTimeout(c, url, handler) ==
    [method |-> "GET", url |-> url, timeout |-> c.timeouts, verify |-> handler # "SSLError"]

\* the session.get call of fetch_website_content: the first one, or the one the
\* except clause `handler` makes
FetchRequest(c, url, handler) ==
    CASE handler = "Timeout" ->
            [method |-> "GET", url |-> url,
             timeout |-> <<c.timeouts[1], c.timeouts[2] * 2>>, verify |-> TRUE]
      [] handler = "SSLError" ->
            [method |-> "GET", url |-> url, timeout |-> c.timeouts, verify |-> FALSE]
      [] OTHER ->
            [method |-> "GET", url |-> url, timeout |-> c.timeouts, verify |-> TRUE]

\* WebCrawler.check_link_accessibility: the request it issues, or NoneDict
\* when the urljoin of line 112 raises
LinkProbeRequest(c, url) ==
    IF urljoin_raises(c.base_url, url) THEN NoneDict
    ELSE [method |-> "HEAD", url |-> urljoin(c.base_url, url), timeout |-> PROBE_TIMEOUT,
          allow_redirects |-> TRUE]

\* check_link_accessibility without its except clause
check_link_accessibility_NoExcept(c, url, outcome) ==
    IF urljoin_raises(c.base_url, url)
    THEN [returned |-> NoneDict, raised |-> Exc("ValueError", InvalidUrlMessage)]
    ELSE IF ~IsExc(outcome)
    THEN [returned |-> [url |-> urljoin(c.base_url, url),
                        status_code |-> outcome.status,
                        is_accessible |-> 200 <= outcome.status /\ outcome.status < 400,
                        redirect_url |-> outcome.redirect],
          raised |-> NoneDict]
    ELSE [returned |-> NoneDict, raised |-> outcome]

\* WebCrawler.check_link_accessibility: [returned, raised] for the outcome of
\* its request.  The ValueError of urljoin is no RequestException: it leaves
\* the method before a request is issued.
check_link_accessibility(c, url, outcome) ==
    LET absolute_url == urljoin(c.base_url, url) IN
    IF urljoin_raises(c.base_url, url)
    THEN [returned |-> NoneDict, raised |-> Exc("ValueError", InvalidUrlMessage)]
    ELSE IF ~IsExc(outcome)
    THEN [returned |-> [url |-> absolute_url,
                        status_code |-> outcome.status,
                        is_accessible |-> 200 <= outcome.status /\ outcome.status < 400,
                        redirect_url |-> outcome.redirect],
          raised |-> NoneDict]
    ELSE IF isinstance(outcome.cls, "RequestException")
    THEN [returned |-> [url |-> absolute_url,
                        status_code |-> NoneInt,
                        is_accessible |-> FALSE,
                        error |-> outcome.msg],
          raised |-> NoneDict]
    ELSE [returned |-> NoneDict, raised |-> outcome]

\* WebCrawler.check_form_submission: the request it issues
FormProbeRequest(form_url, method) ==
    [method |-> IF Upper(method) = "GET" THEN "GET" ELSE "POST",
     url |-> form_url, timeout |-> PROBE_TIMEOUT]

\* check_form_submission with the upper end of the range included
check_form_submission_Inclusive(form_url, method, outcome) ==
    IF ~IsExc(outcome)
    THEN [returned |-> [url |-> form_url,
                        status_code |-> outcome.status,
                        accepts_submission |-> 200 <= outcome.status /\ outcome.status <= 400],
          raised |-> NoneDict]
    ELSE [returned |-> [url |-> form_url,
                        status_code |-> NoneInt,
                        accepts_submission |-> FALSE,
                        error |-> outcome.msg],
          raised |-> NoneDict]

\* WebCrawler.check_form_submission
check_form_submission(form_url, method, outcome) ==
    IF ~IsExc(outcome)
    THEN [returned |-> [url |-> form_url,
                        status_code |-> outcome.status,
                        accepts_submission |-> 200 <= outcome.status /\ outcome.status < 400],
          raised |-> NoneDict]
    ELSE IF isinstance(outcome.cls, "RequestException")
    THEN [returned |-> [url |-> form_url,
                        status_code |-> NoneInt,
                        accepts_submission |-> FALSE,
                        error |-> outcome.msg],
          raised |-> NoneDict]
    ELSE [returned |-> NoneDict, raised |-> outcome]

----------------------------------------------------------------------------
(* The documents, URLs and network outcomes the model draws its inputs from *)

BaseUrl == Url("http", "x.com", EmptyPath)
NoUrl == Url("", "", EmptyPath)                        \* '' or a missing form field
BadUrl == Url("", "", Path(FALSE, <<"invalid-url">>))  \* 'invalid-url'
RequestUrls == {BaseUrl, NoUrl, BadUrl}

\* an a element: its href (NoneDict without the attribute), its text and its
\* other attributes
Anchor(href, text, attrs) == [href |-> href, text |-> text, attrs |-> attrs]
AnchorAbout == Anchor(Url("", "", Path(TRUE, <<"about">>)), "About", EmptyDict)
AnchorExternal == Anchor(Url("http", "external.example.com", Path(TRUE, <<"page">>)),
                         "External", EmptyDict)
AnchorFr == Anchor(Url("", "", Path(FALSE, <<"fr">>)), "FR", [class |-> "lang"])
AnchorNoHref == Anchor(NoneDict, "EmptyAnchor", EmptyDict)
AnchorEmptyHref == Anchor(NoUrl, "Blank", EmptyDict)
\* hrefs '//[x' and 'http://[x', which urljoin and urlparse refuse
AnchorBadNetloc == Anchor(Url("", "[x", EmptyPath), "Broken", EmptyDict)
AnchorBadHttp == Anchor(Url("http", "[x", EmptyPath), "BrokenHttp", EmptyDict)
Anchors == {AnchorAbout, AnchorExternal, AnchorNoHref}

\* the lists of at most n elements of S
SeqsUpTo(S, n) == UNION {[1..k -> S] : k \in 0..n}

NoMeta == [description |-> NoneDict, keywords |-> NoneDict, viewport |-> NoneDict,
           charset |-> NoneDict, robots |-> NoneDict]

\* <html lang="en"><body><h1>Hi</h1></body></html>
MinimalSoup ==
    [html |-> TRUE, lang |-> <<"en">>, dir |-> None, alternates |-> <<>>,
     content_language |-> NoneDict, title |-> None,
     subheadings |-> [h2 |-> <<>>, h3 |-> <<>>, h4 |-> <<>>, h5 |-> <<>>, h6 |-> <<>>],
     lists |-> [ul |-> 0, ol |-> 0, dl |-> 0], meta |-> NoMeta, images |-> <<>>,
     h1 |-> <<"Hi">>, scripts |-> [external |-> 0, inline |-> 0],
     stylesheets |-> [linked |-> 0, unlinked |-> 0, style_tags |-> 0],
     elements |-> <<>>, tables |-> <<>>, anchors |-> <<>>, forms |-> <<>>,
     buttons |-> 0, canonical |-> FALSE, og |-> {}, twitter |-> {},
     text_runs |-> <<[lang |-> "en", n |-> 2]>>, confidence |-> 127,
     sample_confidences |-> <<>>, encoding |-> "ascii"]

\* an input element; required is the value of its required attribute, "None"
\* when it has none
InputField(type, name, required) ==
    [tag |-> "input", type |-> type, name |-> name, id |-> None, required |-> required]

LoginForm ==
    [action |-> NoneDict, method |-> "post",
     fields |-> <<InputField("text", "user", ""), InputField("password", "pw", "required"),
                  InputField(None, None, None)>>]
SearchForm ==
    [action |-> Url("", "", Path(TRUE, <<"search">>)), method |-> None,
     fields |-> <<InputField("text", "q", None)>>]

\* a page with a title, responsive viewport, one image, a login form, English
\* text and a language tag with a region
RichSoup ==
    [MinimalSoup EXCEPT
        !.lang = <<"en", "US">>, !.title = "Home",
        !.subheadings = [h2 |-> <<"Intro", "More">>, h3 |-> <<"Detail">>, h4 |-> <<>>,
                         h5 |-> <<>>, h6 |-> <<>>],
        !.lists = [ul |-> 2, ol |-> 0, dl |-> 1],
        !.meta = [NoMeta EXCEPT !.description = [content |-> "A page"],
                                !.viewport = [content |-> ViewportResponsive],
                                !.robots = [content |-> None]],
        !.images = <<[alt |-> "logo"], [alt |-> None]>>,
        !.scripts = [external |-> 1, inline |-> 1],
        !.stylesheets = [linked |-> 1, unlinked |-> 0, style_tags |-> 0],
        !.elements = <<[tag |-> "nav", role |-> "navigation", aria_label |-> "",
                        lang |-> NoneLang, dir |-> None]>>,
        !.tables = <<[caption |-> FALSE, th |-> 2, tr |-> 3, td |-> 4, th_scope |-> FALSE]>>,
        !.forms = <<LoginForm>>, !.buttons = 1, !.canonical = TRUE,
        !.og = {"og:title"},
        !.text_runs = <<[lang |-> "en", n |-> 40]>>, !.confidence = 127,
        !.encoding = "utf-8"]

\* a page without a language tag whose text is English with a French passage
MixedSoup ==
    [MinimalSoup EXCEPT
        !.lang = NoneLang, !.title = "Accueil", !.h1 = <<"A", "B">>,
        !.meta = [NoMeta EXCEPT !.viewport = [content |-> ViewportFixed]],
        !.forms = <<SearchForm>>,
        !.text_runs = <<[lang |-> "en", n |-> 42], [lang |-> "fr", n |-> 14]>>,
        !.confidence = 77,
        !.sample_confidences = <<122, 122, 122, 122, 122, 122, 115, 64>>,
        !.encoding = "Windows-1252"]

Soups == {MinimalSoup, RichSoup, MixedSoup}

\* the documents of the model: one of the soups with some anchors
\* a form whose inputs are one without a type attribute and a hidden one
TokenForm ==
    [action |-> Url("", "", Path(TRUE, <<"subscribe">>)), method |-> "post",
     fields |-> <<InputField(None, "address", None), InputField("hidden", "csrf_token", None)>>]

\* a page without H1 whose only inputs are those of TokenForm
UntypedInputSoup == [MinimalSoup EXCEPT !.forms = <<TokenForm>>, !.h1 = <<>>]

Documents == {[sp EXCEPT !.anchors = as] : sp \in Soups, as \in SeqsUpTo(Anchors, MaxLinks)}
             \cup {UntypedInputSoup}
             \cup {[MinimalSoup EXCEPT !.anchors = as] :
                      as \in {<<AnchorBadNetloc, AnchorAbout>>, <<AnchorAbout, AnchorBadHttp>>}}

HtmlText(soup) == Text(0, soup)
EmptyText == Text(0, NoneDict)
BlankText == Text(1, NoneDict)
\* '\xa0'
NbspText == [ws |-> 0, nbsp |-> 1, soup |-> NoneDict]

\* outcomes of the GET of the page under analysis
FetchOutcomes(soup) ==
    {Resp(200, HtmlText(soup), NoneDict), Resp(200, EmptyText, NoneDict),
     Resp(200, BlankText, NoneDict), Resp(200, NbspText, NoneDict),
     Resp(404, HtmlText(soup), NoneDict),
     Exc("ReadTimeout", "Read timed out"), Exc("ConnectTimeout", "Connect timed out"),
     Exc("ConnectionError", "Connection refused"),
     Exc("SSLError", "certificate verify failed")}

\* outcomes of a probe made while a page is analyzed
ProbeOutcomes ==
    {Resp(200, EmptyText, NoneDict), Resp(404, EmptyText, NoneDict),
     Exc("ConnectionError", "Connection refused")}

----------------------------------------------------------------------------
(* analyze (app.py): the handler of POST /analyze, one step per blocking   *)
(* call or stage                                                           *)

\* the except clauses around crawler.fetch_website_content, in source order,
\* with the status each answers
AnalyzeClauses == <<"Timeout", "ConnectionError", "SSLError", "RequestException">>

FetchErrorResponse(clause, e) ==
    CASE clause = "Timeout" ->
            [status |-> 504, details |-> e.msg,
             error |-> "The website took too long to respond. Please try again later."]
      [] clause = "ConnectionError" ->
            [status |-> 502, details |-> e.msg,
             error |-> "Could not establish a connection to the website."]
      [] clause = "SSLError" ->
            [status |-> 526, details |-> e.msg,
             error |-> "Failed to establish a secure connection to the website."]
      [] clause = "RequestException" ->
            [status |-> 502, details |-> e.msg,
             error |-> "Failed to fetch website content. Please verify the URL is accessible."]
      [] OTHER ->
            [status |-> 500,
             error |-> <<"An error occurred while analyzing the website: ", e.cls>>]

InvalidUrlResponse ==
    [status |-> 400,
     error |-> "Invalid URL provided. Please enter a valid URL including http:// or https://"]
EmptyContentResponse ==
    [status |-> 422,
     details |-> "The server responded but did not provide any HTML content to analyze.",
     error |-> "The website returned empty content."]
ParseErrorResponse(msg) ==
    [status |-> 422, details |-> msg, error |-> "Failed to parse website content."]
\* the clause except Exception of the parse stage, lines 441-446
AnalysisErrorResponse(msg) ==
    [status |-> 500, details |-> msg,
     error |-> "An error occurred while analyzing the website."]
\* the outermost except clause
UnexpectedErrorResponse(exc) ==
    [status |-> 500, error |-> <<"An error occurred while analyzing the website: ", exc>>]

\* the statements of analyze after the URL check, in source order
AnalyzeStages ==
    <<"fetch", "validate_content", "parse", "check_links", "gen_links", "gen_forms",
      "gen_structure", "gen_accessibility", "gen_language", "export", "render">>

\* an order of statements with the export moved before the language generation
StageAfter_ExportEarly(p) ==
    CASE p = "gen_accessibility" -> "export"
      [] p = "export" -> "gen_language"
      [] p = "gen_language" -> "render"
      [] OTHER -> LET i == CHOOSE k \in DOMAIN AnalyzeStages : AnalyzeStages[k] = p
                  IN  AnalyzeStages[i + 1]
\* the stage that follows stage p
StageAfter(p) ==
    LET i == CHOOSE k \in DOMAIN AnalyzeStages : AnalyzeStages[k] = p
    IN  AnalyzeStages[i + 1]

\* export_to_csv: the rows of the DataFrame, columns in insertion order
CsvRows(tcs) ==
    [i \in DOMAIN tcs |->
        <<tcs[i].TC_ID, tcs[i].Description, tcs[i].TestStep, tcs[i].ExpectedResult,
          tcs[i].ActualResult, tcs[i].Status>>]

Reply(r) == /\ response' = r
            /\ pc' = "done"
            /\ log' = Append(log, "response")

\* lines 374-390: the URL check and the construction of the crawler
ValidateUrl ==
    /\ pc = "start"
    /\ IF ~UrlTruthy(request_url) \/ ~validators_url(request_url)
       THEN /\ Reply(InvalidUrlResponse)
            /\ UNCHANGED crawler
       ELSE IF ~IsNone(WebCrawler_raises(request_url))
       THEN /\ Reply(UnexpectedErrorResponse(WebCrawler_raises(request_url).cls))
            /\ UNCHANGED crawler
       ELSE /\ crawler' = WebCrawler(request_url, DEFAULT_CONNECT_TIMEOUT, DEFAULT_READ_TIMEOUT)
            /\ pc' = "fetch"
            /\ log' = Append(log, "crawler")
            /\ UNCHANGED response
    /\ UNCHANGED <<interpreter, request_url, site, attempts, fetch_handler, fetch_error, content, parser,
                   links, forms, structure, language_analysis, link_checks, probes, exported>>
    /\ UNCHANGED <<genVars, callVars>>

\* what fetch_website_content does with the result of an attempt made in
\* `handler` ("None": the first attempt)
FetchStep(handler, outcome) ==
    LET got == GetChecked(outcome)
        clause == IF handler = None THEN FirstClause(FetchClauses, got.cls) ELSE None
    IN
    /\ attempts' = Append(attempts, [request |-> FetchRequest(crawler, request_url, handler),
                                     outcome |-> outcome])
    /\ IF ~IsExc(got)
       THEN /\ content' = got.text
            /\ pc' = StageAfter("fetch")
            /\ log' = Append(log, "fetched")
            /\ UNCHANGED <<fetch_handler, fetch_error>>
       ELSE IF clause \in {"Timeout", "SSLError"}
       THEN /\ fetch_handler' = clause
            /\ UNCHANGED <<fetch_error, content, pc, log>>
       ELSE /\ fetch_error' = got
            /\ pc' = "fetch_failed"
            /\ UNCHANGED <<fetch_handler, content, log>>

\* crawler.py lines 65-69: the first attempt
FetchFirst ==
    /\ pc = "fetch" /\ fetch_handler = None
    /\ \E outcome \in FetchOutcomes(site) : FetchStep(None, outcome)
    /\ UNCHANGED <<interpreter, request_url, site, crawler, parser, links, forms, structure,
                   language_analysis, link_checks, probes, exported, response>>
    /\ UNCHANGED <<genVars, callVars>>

\* crawler.py lines 73-80 and 86-93: the attempt made by an except clause
FetchRetry ==
    /\ pc = "fetch" /\ fetch_handler # None
    /\ \E outcome \in FetchOutcomes(site) : FetchStep(fetch_handler, outcome)
    /\ UNCHANGED <<interpreter, request_url, site, crawler, parser, links, forms, structure,
                   language_analysis, link_checks, probes, exported, response>>
    /\ UNCHANGED <<genVars, callVars>>

\* app.py lines 394-417: the except clauses around the fetch
FetchFailed ==
    /\ pc = "fetch_failed"
    /\ Reply(FetchErrorResponse(FirstClause(AnalyzeClauses, fetch_error.cls), fetch_error))
    /\ UNCHANGED <<interpreter, request_url, site, crawler, attempts, fetch_handler, fetch_error, content,
                   parser, links, forms, structure, language_analysis, link_checks, probes,
                   exported>>
    /\ UNCHANGED <<genVars, callVars>>

\* app.py lines 420-424
ValidateContent ==
    /\ pc = "validate_content"
    /\ IF StrEmpty(content) \/ StrEmpty(Strip(content))
       THEN Reply(EmptyContentResponse)
       ELSE /\ pc' = StageAfter("validate_content")
            /\ UNCHANGED <<response, log>>
    /\ UNCHANGED <<interpreter, request_url, site, crawler, attempts, fetch_handler, fetch_error, content,
                   parser, links, forms, structure, language_analysis, link_checks, probes,
                   exported>>
    /\ UNCHANGED <<genVars, callVars>>

\* the statements of the try block of lines 428-434, in order
ParseStatements == <<"parser", "links", "forms", "structure", "language">>

\* an exception that is not a ValueError and that the document of the model
\* does not determine (a MemoryError, whose str is empty), raised by one of
\* the statements of lines 428-434.  NoneDict: none is raised.
ParseFaults ==
    {NoneDict} \cup {[at |-> ParseStatements[k], exc |-> Exc("MemoryError", "")] :
                        k \in DOMAIN ParseStatements}

\* the ValueError the content and the URL make a statement of the try block
\* raise, with the statement that raises it, or NoneDict
ParseValueError(html_content, base_url) ==
    LET soup == BeautifulSoup(html_content) IN
    IF WebParser_init(html_content, base_url) # None
    THEN [at |-> "parser", exc |-> Exc("ValueError", WebParser_init_message(html_content, base_url))]
    ELSE IF extract_links_raises(soup, base_url) # None
    THEN [at |-> "links", exc |-> Exc("ValueError", InvalidUrlMessage)]
    ELSE IF extract_forms_raises(soup, base_url) # None
    THEN [at |-> "forms", exc |-> Exc("ValueError", InvalidUrlMessage)]
    ELSE IF extract_page_structure_raises(soup, base_url) # None
    THEN [at |-> "structure", exc |-> Exc("ValueError", InvalidUrlMessage)]
    ELSE NoneDict

\* app.py lines 426-446: parser, extraction and language analysis.  The
\* statements before the one that raises have assigned their variables when
\* an except clause answers.
Parse ==
    /\ pc = "parse"
    /\ \E fault \in ParseFaults :
        LET StatementRank(st) ==
                CHOOSE k \in DOMAIN ParseStatements : ParseStatements[k] = st
            determined == ParseValueError(content, request_url)
            \* the exception that ends the try block, or NoneDict
            raised == IF IsNone(determined) THEN fault
                      ELSE IF IsNone(fault) THEN determined
                      ELSE IF StatementRank(fault.at) < StatementRank(determined.at) THEN fault
                      \* WebParser.__init__ tests its arguments first
                      ELSE IF fault.at = determined.at /\ fault.at # "parser" THEN fault
                      ELSE determined
            \* statement st has completed
            Completed(st) == IsNone(raised) \/ StatementRank(st) < StatementRank(raised.at)
            soup == BeautifulSoup(content)
        IN  \E faults \in (IF Completed("language") THEN Faults ELSE {NoFaults}) :
            /\ parser' = IF Completed("parser")
                         THEN [soup |-> soup, base_url |-> request_url] ELSE parser
            /\ links' = IF Completed("links") THEN extract_links(soup, request_url) ELSE links
            /\ forms' = IF Completed("forms") THEN extract_forms(soup, request_url) ELSE forms
            /\ structure' = IF Completed("structure")
                            THEN extract_page_structure(soup, request_url) ELSE structure
            /\ language_analysis' = IF Completed("language")
                                    THEN analyze_language(content, faults)
                                    ELSE language_analysis
            /\ IF IsNone(raised)
               THEN /\ pc' = StageAfter("parse")
                    /\ log' = log \o <<"parser", "extracted">>
                    /\ UNCHANGED response
               ELSE /\ response' = IF raised.exc.cls = "ValueError"
                                    THEN ParseErrorResponse(raised.exc.msg)
                                    ELSE AnalysisErrorResponse(raised.exc.msg)
                    /\ pc' = "done"
                    /\ log' = log \o (IF Completed("parser") THEN <<"parser">> ELSE <<>>)
                                  \o <<"response">>
    /\ UNCHANGED <<interpreter, request_url, site, crawler, attempts, fetch_handler, fetch_error, content,
                   link_checks, probes, exported>>
    /\ UNCHANGED <<genVars, callVars>>

\* app.py line 449: one iteration of the list comprehension over links
CheckLink ==
    /\ pc = "check_links"
    /\ Len(link_checks) < Len(links)
    /\ \E outcome \in ProbeOutcomes :
        LET url == links[Len(link_checks) + 1].url
            r == check_link_accessibility(crawler, url, outcome)
            request == LinkProbeRequest(crawler, url)
        IN  /\ probes' = IF IsNone(request) THEN probes
                          ELSE Append(probes, [request |-> request, outcome |-> outcome])
            /\ IF IsNone(r.raised)
               THEN /\ link_checks' = Append(link_checks, r.returned)
                    /\ log' = Append(log, "probe")
                    /\ UNCHANGED <<pc, response>>
               ELSE /\ Reply(UnexpectedErrorResponse(r.raised.cls))
                    /\ UNCHANGED link_checks
    /\ UNCHANGED <<interpreter, request_url, site, crawler, attempts, fetch_handler, fetch_error, content,
                   parser, links, forms, structure, language_analysis, exported>>
    /\ UNCHANGED <<genVars, callVars>>

\* app.py line 452: the list comprehension is complete, the generator is built
CreateGenerator ==
    /\ pc = "check_links"
    /\ Len(link_checks) = Len(links)
    /\ test_cases' = NewTestCaseGenerator.test_cases
    /\ tc_counter' = NewTestCaseGenerator.tc_counter
    /\ pc' = StageAfter("check_links")
    /\ log' = Append(log, "generator")
    /\ UNCHANGED <<interpreter, request_url, site, crawler, attempts, fetch_handler, fetch_error, content,
                   parser, links, forms, structure, language_analysis, link_checks, probes,
                   exported, response>>
    /\ UNCHANGED callVars

\* the generate_* calls with the form test cases generated before the link ones
StageSteps_FormsFirst(p) ==
    CASE p = "gen_links" -> generate_form_test_cases(forms)
      [] p = "gen_forms" -> generate_link_test_cases(links, link_checks)
      [] p = "gen_structure" -> generate_structure_test_cases(structure)
      [] p = "gen_accessibility" -> generate_accessibility_test_cases(structure)
      [] p = "gen_language" -> generate_language_test_cases(language_analysis)

\* the steps of the generate_* call made at stage p
StageSteps(p) ==
    CASE p = "gen_links" -> generate_link_test_cases(links, link_checks)
      [] p = "gen_forms" -> generate_form_test_cases(forms)
      [] p = "gen_structure" -> generate_structure_test_cases(structure)
      [] p = "gen_accessibility" -> generate_accessibility_test_cases(structure)
      [] p = "gen_language" -> generate_language_test_cases(language_analysis)

\* app.py lines 453-457: one generate_* call; an exception goes to the
\* outermost except clause
Generate ==
    /\ pc \in {"gen_links", "gen_forms", "gen_structure", "gen_accessibility", "gen_language"}
    /\ LET r == Run([test_cases |-> test_cases, tc_counter |-> tc_counter], StageSteps(pc))
       IN  /\ test_cases' = r.gen.test_cases
           /\ tc_counter' = r.gen.tc_counter
           /\ IF r.raised = None
              THEN /\ pc' = StageAfter(pc)
                   /\ log' = Append(log, pc)
                   /\ UNCHANGED response
              ELSE Reply(UnexpectedErrorResponse(r.raised))
    /\ UNCHANGED <<interpreter, request_url, site, crawler, attempts, fetch_handler, fetch_error, content,
                   parser, links, forms, structure, language_analysis, link_checks, probes,
                   exported>>
    /\ UNCHANGED callVars

\* app.py lines 460-463
Export ==
    /\ pc = "export"
    /\ exported' = [rows |-> CsvRows(test_cases)]
    /\ pc' = StageAfter("export")
    /\ log' = Append(log, "export")
    /\ UNCHANGED <<interpreter, request_url, site, crawler, attempts, fetch_handler, fetch_error, content,
                   parser, links, forms, structure, language_analysis, link_checks, probes,
                   response>>
    /\ UNCHANGED <<genVars, callVars>>

\* app.py lines 466-476
Render ==
    /\ pc = "render"
    /\ Reply([status |-> 200, test_cases |-> test_cases,
              summary |-> [total  |-> Len(test_cases),
                           passed |-> CountIf(test_cases, LAMBDA tc : tc.Status = "Pass"),
                           failed |-> CountIf(test_cases, LAMBDA tc : tc.Status = "Fail")]])
    /\ UNCHANGED <<interpreter, request_url, site, crawler, attempts, fetch_handler, fetch_error, content,
                   parser, links, forms, structure, language_analysis, link_checks, probes,
                   exported>>
    /\ UNCHANGED <<genVars, callVars>>

\* values of the variables a specification does not use
IdlePipe ==
    /\ pc = "idle" /\ request_url = NoUrl /\ site = NoneDict /\ crawler = NoneDict
    /\ attempts = <<>> /\ fetch_handler = None /\ fetch_error = NoneDict
    /\ content = NoneDict /\ parser = NoneDict
    /\ links = <<>> /\ forms = <<>> /\ structure = NoneDict /\ language_analysis = NoneDict
    /\ link_checks = <<>> /\ probes = <<>> /\ exported = NoneDict /\ response = NoneDict
    /\ log = <<>>
IdleGen == test_cases = <<>> /\ tc_counter = 1
IdleCalls == calls = 0 /\ last_call = NoneDict /\ wrap_results = <<>>

\* one POST /analyze for a URL whose server serves one of the documents
Init ==
    /\ interpreter \in Interpreters
    /\ pc = "start"
    /\ request_url \in RequestUrls
    /\ site \in Documents
    /\ crawler = NoneDict
    /\ attempts = <<>> /\ fetch_handler = None /\ fetch_error = NoneDict
    /\ content = NoneDict /\ parser = NoneDict
    /\ links = <<>> /\ forms = <<>> /\ structure = NoneDict /\ language_analysis = NoneDict
    /\ link_checks = <<>> /\ probes = <<>> /\ exported = NoneDict /\ response = NoneDict
    /\ log = <<>>
    /\ IdleGen /\ IdleCalls

Next ==
    \/ ValidateUrl
    \/ FetchFirst
    \/ FetchRetry
    \/ FetchFailed
    \/ ValidateContent
    \/ Parse
    \/ CheckLink
    \/ CreateGenerator
    \/ Generate
    \/ Export
    \/ Render

Spec == Init /\ [][Next]_vars

----------------------------------------------------------------------------
(* The module-level generate_test_cases (test_generator.py lines 413-444)  *)

\* run steps after r unless r already raised
RunAfter(r, steps) == IF r.raised # None THEN r ELSE Run(r.gen, steps)

\* link checks that report every link as answering 404
DefaultLinkChecks_NotFound(ls) ==
    [i \in DOMAIN ls |-> [url |-> ls[i].url, status_code |-> 404, is_accessible |-> FALSE]]

\* the optimistic link checks generate_test_cases builds
DefaultLinkChecks(ls) ==
    [i \in DOMAIN ls |-> [url |-> ls[i].url, status_code |-> 200, is_accessible |-> TRUE]]

\* lines 420-444 of generate_test_cases(parsed_data), run on the generator gen
\* line 419 built: [returned, raised, gen].  `if structure:` and
\* `if language_analysis:` test the truth of the value: None and an empty
\* dict are skipped.
generate_test_cases_on(gen, parsed_data) ==
    LET DictTruthy(d) == ~IsNone(d) /\ DOMAIN d # {}
        ls == DictGet(parsed_data, "links", <<>>)
        fs == DictGet(parsed_data, "forms", <<>>)
        has_structure == DictTruthy(DictGet(parsed_data, "structure", EmptyDict))
        has_language == DictTruthy(DictGet(parsed_data, "language", NoneDict))
        r1 == Run(gen, IF ls # <<>> THEN generate_link_test_cases(ls, DefaultLinkChecks(ls))
                       ELSE Skip)
        r2 == RunAfter(r1, IF fs # <<>> THEN generate_form_test_cases(fs) ELSE Skip)
        r3 == RunAfter(r2, IF has_structure
                           THEN generate_structure_test_cases(parsed_data.structure) ELSE Skip)
        r4 == RunAfter(r3, IF has_structure
                           THEN generate_accessibility_test_cases(parsed_data.structure)
                           ELSE Skip)
        \* try: ... except Exception: pass
        r5 == IF r4.raised # None THEN r4
              ELSE [gen |-> Run(r4.gen, IF has_language
                                        THEN generate_language_test_cases(parsed_data.language)
                                        ELSE Skip).gen,
                    raised |-> None]
    IN  [returned |-> IF r5.raised = None THEN r5.gen.test_cases ELSE <<>>,
         raised   |-> r5.raised,
         gen      |-> r5.gen]

\* generate_test_cases builds its own generator
generate_test_cases(parsed_data) == generate_test_cases_on(NewTestCaseGenerator, parsed_data)

\* parse_html answering an empty structure dict
parse_html_NoStructure(html_content, base_url) ==
    [links     |-> extract_links(BeautifulSoup(html_content), base_url),
     forms     |-> extract_forms(BeautifulSoup(html_content), base_url),
     structure |-> <<>>]

\* the ValueError parse_html raises, with the statement that raises it, or
\* NoneDict: that of the constructor or of the first extraction that raises
parse_html_raises(html_content, base_url) == ParseValueError(html_content, base_url)

\* parse_html (parser.py lines 212-219) when it does not raise
parse_html(html_content, base_url) ==
    [links     |-> extract_links(BeautifulSoup(html_content), base_url),
     forms     |-> extract_forms(BeautifulSoup(html_content), base_url),
     structure |-> extract_page_structure(BeautifulSoup(html_content), base_url)]

\* the documents given to the wrappers: each soup with two anchors
WrapDocuments == {[sp EXCEPT !.anchors = <<AnchorAbout, AnchorExternal>>] : sp \in Soups}
                 \cup {MinimalSoup}

\* link checks of the links of a document whose probes all failed
FailedLinkChecks(d) ==
    LET ls == extract_links(d, BaseUrl) IN
    [i \in DOMAIN ls |->
        check_link_accessibility(WebCrawler(BaseUrl, DEFAULT_CONNECT_TIMEOUT,
                                            DEFAULT_READ_TIMEOUT),
                                 ls[i].url, Exc("ConnectionError", "Connection refused")).returned]

\* the dicts given to generate_test_cases: the result of parse_html, alone or
\* with the language analysis of the same document under the 'language' key,
\* and dicts whose structure or language is None or an empty dict
ParsedData ==
    {parse_html(HtmlText(d), BaseUrl) : d \in WrapDocuments}
    \cup {parse_html(BlankText, BaseUrl)}
    \cup {[links |-> extract_links([MinimalSoup EXCEPT !.anchors = <<AnchorAbout>>], BaseUrl),
           structure |-> NoneDict, language |-> EmptyDict],
          [forms |-> <<>>, structure |-> EmptyDict, language |-> NoneDict]}
    \cup {parse_html(HtmlText(d), BaseUrl) @@ [link_checks |-> FailedLinkChecks(d)] :
             d \in WrapDocuments}
    \cup {parse_html(HtmlText(d), BaseUrl) @@ [language |-> analyze_language(HtmlText(d), f)] :
             d \in WrapDocuments, f \in Faults}

\* generate_test_cases(parsed_data) is called: line 419 builds the generator
\* of this call.  test_cases and tc_counter are the attributes of the
\* generator built last; before is the counter the call before left.
CallGenerateTestCases ==
    /\ pc = "wrap"
    /\ IsNone(last_call)
    /\ Len(wrap_results) < MaxWrapCalls
    /\ \E parsed_data \in ParsedData :
          last_call' = [fn |-> "generate_test_cases", input |-> parsed_data,
                        before |-> tc_counter]
    /\ test_cases' = NewTestCaseGenerator.test_cases
    /\ tc_counter' = NewTestCaseGenerator.tc_counter
    /\ UNCHANGED <<calls, wrap_results, pipeVars>>

\* lines 420-444: the generate_* calls on that generator, and the return
ReturnGenerateTestCases ==
    /\ pc = "wrap"
    /\ ~IsNone(last_call)
    /\ LET r == generate_test_cases_on([test_cases |-> test_cases, tc_counter |-> tc_counter],
                                       last_call.input)
       IN  /\ wrap_results' = Append(wrap_results,
                                     [input |-> last_call.input, output |-> r.returned,
                                      raised |-> r.raised, before |-> last_call.before])
           /\ test_cases' = r.gen.test_cases
           /\ tc_counter' = r.gen.tc_counter
    /\ last_call' = NoneDict
    /\ calls' = calls + 1
    /\ UNCHANGED pipeVars

InitWrap ==
    /\ interpreter \in Interpreters
    /\ pc = "wrap" /\ request_url = NoUrl /\ site = NoneDict /\ crawler = NoneDict
    /\ attempts = <<>> /\ fetch_handler = None /\ fetch_error = NoneDict
    /\ content = NoneDict /\ parser = NoneDict
    /\ links = <<>> /\ forms = <<>> /\ structure = NoneDict /\ language_analysis = NoneDict
    /\ link_checks = <<>> /\ probes = <<>> /\ exported = NoneDict /\ response = NoneDict
    /\ log = <<>>
    /\ IdleGen /\ IdleCalls

NextWrap ==
    \/ CallGenerateTestCases
    \/ ReturnGenerateTestCases

SpecWrap == InitWrap /\ [][NextWrap]_vars

----------------------------------------------------------------------------
(* One TestCaseGenerator driven by a caller: any sequence of generate_*    *)
(* calls, each with the result of a parse or with a dict that lacks keys   *)

GenCrawler == WebCrawler(BaseUrl, DEFAULT_CONNECT_TIMEOUT, DEFAULT_READ_TIMEOUT)
GenLinks == extract_links([MinimalSoup EXCEPT !.anchors = <<AnchorAbout, AnchorExternal>>],
                          BaseUrl)
CheckOf(link, outcome) == check_link_accessibility(GenCrawler, link.url, outcome).returned

\* the (links, link_checks) arguments: aligned lists, and lists of unequal length
LinkArguments ==
    {<<GenLinks, <<CheckOf(GenLinks[1], Exc("ConnectionError", "Connection refused")),
                   CheckOf(GenLinks[2], Resp(200, EmptyText, NoneDict))>>>>,
     <<GenLinks, <<CheckOf(GenLinks[1], Resp(404, EmptyText, NoneDict))>>>>,
     <<SubSeq(GenLinks, 1, 1), DefaultLinkChecks(GenLinks)>>,
     <<SubSeq(GenLinks, 1, 1),
       <<[url |-> GenLinks[1].url, is_accessible |-> FALSE, error |-> "Connection refused"]>>>>,
     <<GenLinks, <<>>>>}

FormArguments == {extract_forms(sp, BaseUrl) : sp \in {RichSoup, MixedSoup}}

\* the structure arguments: parse results, and dicts made by hand with
\* 'images' only, 'seo_elements' only, and empty or partial resource counts
StructureArguments ==
    {extract_page_structure(sp, BaseUrl) : sp \in Soups} \cup {[images |-> <<[alt |-> ""]>>]}
    \cup {[seo_elements |-> [canonical |-> TRUE, h1_count |-> 1, meta_description |-> TRUE,
                             meta_keywords |-> FALSE, img_alt_ratio |-> Ratio(1, 8)]]}
    \cup {[stylesheets |-> EmptyDict, scripts |-> [total |-> 0, external |-> 0, inline |-> 0]],
          [scripts |-> NoneDict, stylesheets |-> [total |-> 2]]}

LanguageArguments ==
    {analyze_language(HtmlText(sp), f) : sp \in Soups, f \in Faults}
    \cup {[locale_info |-> li] @@ analyze_language(HtmlText(RichSoup), NoFaults) :
             li \in {EmptyDict, [language_name |-> "English"]}}

\* the effect of one generate_* call, made with the arguments args, on the
\* generator
Apply(name, args, steps) ==
    LET r == Run([test_cases |-> test_cases, tc_counter |-> tc_counter], steps) IN
    /\ test_cases' = r.gen.test_cases
    /\ tc_counter' = r.gen.tc_counter
    /\ last_call' = [fn |-> name, args |-> args, raised |-> r.raised,
                     before |-> Len(test_cases)]

CallGenerateLinks ==
    /\ pc = "gen" /\ calls < MaxCalls
    /\ \E a \in LinkArguments :
        Apply("generate_link_test_cases", a, generate_link_test_cases(a[1], a[2]))
    /\ calls' = calls + 1
    /\ UNCHANGED <<wrap_results, pipeVars>>

CallGenerateForms ==
    /\ pc = "gen" /\ calls < MaxCalls
    /\ \E fs \in FormArguments :
        Apply("generate_form_test_cases", <<fs>>, generate_form_test_cases(fs))
    /\ calls' = calls + 1
    /\ UNCHANGED <<wrap_results, pipeVars>>

CallGenerateStructure ==
    /\ pc = "gen" /\ calls < MaxCalls
    /\ \E st \in StructureArguments :
        Apply("generate_structure_test_cases", <<st>>, generate_structure_test_cases(st))
    /\ calls' = calls + 1
    /\ UNCHANGED <<wrap_results, pipeVars>>

CallGenerateAccessibility ==
    /\ pc = "gen" /\ calls < MaxCalls
    /\ \E st \in StructureArguments :
        Apply("generate_accessibility_test_cases", <<st>>,
              generate_accessibility_test_cases(st))
    /\ calls' = calls + 1
    /\ UNCHANGED <<wrap_results, pipeVars>>

CallGenerateLanguage ==
    /\ pc = "gen" /\ calls < MaxCalls
    /\ \E la \in LanguageArguments :
        Apply("generate_language_test_cases", <<la>>, generate_language_test_cases(la))
    /\ calls' = calls + 1
    /\ UNCHANGED <<wrap_results, pipeVars>>

InitGen ==
    /\ interpreter \in Interpreters
    /\ pc = "gen" /\ request_url = NoUrl /\ site = NoneDict /\ crawler = NoneDict
    /\ attempts = <<>> /\ fetch_handler = None /\ fetch_error = NoneDict
    /\ content = NoneDict /\ parser = NoneDict
    /\ links = <<>> /\ forms = <<>> /\ structure = NoneDict /\ language_analysis = NoneDict
    /\ link_checks = <<>> /\ probes = <<>> /\ exported = NoneDict /\ response = NoneDict
    /\ log = <<>>
    /\ test_cases = NewTestCaseGenerator.test_cases
    /\ tc_counter = NewTestCaseGenerator.tc_counter
    /\ IdleCalls

NextGen ==
    \/ CallGenerateLinks
    \/ CallGenerateForms
    \/ CallGenerateStructure
    \/ CallGenerateAccessibility
    \/ CallGenerateLanguage

SpecGen == InitGen /\ [][NextGen]_vars

----------------------------------------------------------------------------
(* The link and form checker called directly: every outcome of its request *)

ProbeStatuses == {199, 200, 204, 301, 399, 400, 404, 500}

\* what session.head / get / post may give: a response with any status, with
\* or without redirect history, or an exception of requests
AllProbeOutcomes ==
    {Resp(st, EmptyText, NoneDict) : st \in ProbeStatuses}
    \cup {Resp(200, EmptyText, Url("http", "x.com", Path(TRUE, <<"moved">>)))}
    \cup {Exc("ConnectionError", "Connection refused"), Exc("ReadTimeout", "Read timed out"),
          Exc("ConnectTimeout", "Connect timed out"),
          Exc("SSLError", "certificate verify failed"),
          Exc("TooManyRedirects", "Exceeded 30 redirects"),
          Exc("InvalidSchema", "No connection adapters were found")}

ProbeUrls == {Url("", "", Path(TRUE, <<"about">>)),
              Url("http", "x.com", Path(TRUE, <<"about">>)),
              Url("http", "external.example.com", Path(TRUE, <<"page">>))}
FormMethods == {"GET", "get", "POST", "post", "PUT"}
\* the URLs check_link_accessibility is called with: also '//[x' and
\* 'http://[x', which urljoin refuses
LinkProbeUrls == ProbeUrls \cup {AnchorBadNetloc.href, AnchorBadHttp.href}

CallCheckLink ==
    /\ pc = "probe"
    /\ \E url \in LinkProbeUrls, outcome \in AllProbeOutcomes :
        LET r == check_link_accessibility(GenCrawler, url, outcome) IN
        last_call' = [fn |-> "check_link_accessibility", url |-> url, method |-> None,
                      request |-> LinkProbeRequest(GenCrawler, url), outcome |-> outcome,
                      returned |-> r.returned, raised |-> r.raised]
    /\ UNCHANGED <<calls, wrap_results, genVars, pipeVars>>

CallCheckForm ==
    /\ pc = "probe"
    /\ \E url \in ProbeUrls, method \in FormMethods, outcome \in AllProbeOutcomes :
        LET r == check_form_submission(url, method, outcome) IN
        last_call' = [fn |-> "check_form_submission", url |-> url, method |-> method,
                      request |-> FormProbeRequest(url, method), outcome |-> outcome,
                      returned |-> r.returned, raised |-> r.raised]
    /\ UNCHANGED <<calls, wrap_results, genVars, pipeVars>>

InitProbe ==
    /\ interpreter \in Interpreters
    /\ pc = "probe" /\ request_url = NoUrl /\ site = NoneDict /\ crawler = NoneDict
    /\ attempts = <<>> /\ fetch_handler = None /\ fetch_error = NoneDict
    /\ content = NoneDict /\ parser = NoneDict
    /\ links = <<>> /\ forms = <<>> /\ structure = NoneDict /\ language_analysis = NoneDict
    /\ link_checks = <<>> /\ probes = <<>> /\ exported = NoneDict /\ response = NoneDict
    /\ log = <<>>
    /\ IdleGen /\ IdleCalls

NextProbe ==
    \/ CallCheckLink
    \/ CallCheckForm

SpecProbe == InitProbe /\ [][NextProbe]_vars

----------------------------------------------------------------------------
(* Properties of the TestCaseGenerator *)

\* the TC_ID of the k-th test case reads TC_ followed by k in decimal, zero-padded
\* to three digits
IdIsNumber(tc, k) ==
    /\ tc.TC_ID.prefix = "TC_"
    /\ ParseInt(tc.TC_ID.digits) = k
    /\ Len(tc.TC_ID.digits) = (IF k < 100 THEN 3 ELSE Len(Digits(k)))
    /\ \A i \in DOMAIN tc.TC_ID.digits : tc.TC_ID.digits[i] \in 0..9

\* C1: on one TestCaseGenerator, after any sequence of generate_* calls, also
\* calls that raised part-way, the k-th accumulated test case has TC_ID k
\* zero-padded to 3 digits (no gap, no repeat) and the counter is the number of
\* test cases plus one.
C1_IdsGapless ==
    /\ tc_counter = Len(test_cases) + 1
    /\ \A k \in DOMAIN test_cases : IdIsNumber(test_cases[k], k)

\* a call raised after it had added a test case, and ids of two digits exist
C1_Witness ==
    /\ pc = "gen"
    /\ ~IsNone(last_call)
    /\ last_call.raised # None
    /\ Len(test_cases) > last_call.before
    /\ last_call.before >= 10

\* C2: two calls of generate_test_cases with identical input return identical
\* lists: same length and, position by position, the same TC_ID, description,
\* step, expected and actual result and status, whatever test cases and
\* counter the calls before left in their generators.
C2_Deterministic ==
    \A i, j \in DOMAIN wrap_results :
        wrap_results[i].input = wrap_results[j].input =>
            /\ wrap_results[i].raised = wrap_results[j].raised
            /\ Len(wrap_results[i].output) = Len(wrap_results[j].output)
            /\ \A k \in DOMAIN wrap_results[i].output :
                wrap_results[i].output[k] = wrap_results[j].output[k]

\* the same parse result with links, a form and a full language analysis was
\* given twice, the second time after the first call had numbered its test
\* cases
C2_Witness ==
    /\ Len(wrap_results) = 2
    /\ wrap_results[1].before = 1
    /\ wrap_results[2].before = 1 + Len(wrap_results[1].output)
    /\ wrap_results[1].input = wrap_results[2].input
    /\ HasKey(wrap_results[1].input, "language")
    /\ HasKey(wrap_results[1].input, "links")
    /\ HasKey(wrap_results[1].input, "forms")
    /\ wrap_results[1].input.links # <<>>
    /\ wrap_results[1].input.forms # <<>>
    /\ Len(wrap_results[2].output) > 20

----------------------------------------------------------------------------
(* Properties of analyze and of the crawler *)

\* the exception an attempt ends with, or NoneDict
AttemptError(a) == IF IsExc(GetChecked(a.outcome)) THEN GetChecked(a.outcome) ELSE NoneDict
\* the first attempt ended with an exception of class cls
FirstAttemptRaised(cls) ==
    /\ attempts # <<>>
    /\ IsExc(attempts[1].outcome)
    /\ isinstance(attempts[1].outcome.cls, cls)
\* the language analysis is the short-circuit or the classification-failure result
PartialLanguage == ~IsNone(language_analysis) /\ HasKey(language_analysis, "error")
\* the body has no character other than white space
BlankBody == ~IsNone(content) /\ IsNone(content.soup)
Logged(entry) == \E i \in DOMAIN log : log[i] = entry

\* C3: with a partial language analysis (short-circuit or classification
\* failure) analyze still completes: it answers 200 with every link, form,
\* structure and accessibility test case, the failing language generation being
\* skipped.
C3_PartialLanguageCompletes ==
    (pc = "done" /\ PartialLanguage) =>
        /\ response.status = 200
        /\ response.test_cases = test_cases
        /\ test_cases # <<>>
        /\ ~IsNone(exported)

\* C4: after a failed fetch or a blank body the analysis ends with an error
\* response and nothing of the later stages happens: no further attempt, no
\* parser, no link probe, no test case, no export.
C4_FetchFailureTerminal ==
    (~IsNone(fetch_error) \/ BlankBody) =>
        /\ IsNone(parser) /\ links = <<>> /\ forms = <<>> /\ IsNone(structure)
        /\ probes = <<>> /\ link_checks = <<>>
        /\ test_cases = <<>> /\ tc_counter = 1
        /\ IsNone(exported)
        /\ pc \in {"fetch_failed", "validate_content", "done"}
        /\ ~IsNone(fetch_error) => AttemptError(attempts[Len(attempts)]) = fetch_error
        /\ BlankBody => attempts[Len(attempts)].outcome.text = content
        /\ pc = "done" =>
            /\ response.status \in {422, 502, 504, 526}
            /\ HasKey(response, "error")
            /\ ~HasKey(response, "test_cases")

\* a white-space-only body was delivered by the retry after a timeout and
\* answered as empty content
C4_Witness ==
    /\ pc = "done"
    /\ BlankBody /\ content.ws > 0
    /\ Len(attempts) = 2
    /\ response = EmptyContentResponse

\* the failure class of a fetch error
FailureClass(e) ==
    IF isinstance(e.cls, "SSLError") THEN "insecure"
    ELSE IF isinstance(e.cls, "Timeout") THEN "timeout"
    ELSE IF isinstance(e.cls, "ConnectionError") THEN "unreachable"
    ELSE "other"

\* C5: analyze answers each fetch failure class with its own message and
\* status: a timeout 504, an unreachable host 502, a TLS failure 526, and a
\* blank body 422.
C5_DistinctFailureOutcomes ==
    /\ (pc = "done" /\ ~IsNone(fetch_error)) =>
          CASE FailureClass(fetch_error) = "timeout" ->
                   response = FetchErrorResponse("Timeout", fetch_error)
            [] FailureClass(fetch_error) = "unreachable" ->
                   response = FetchErrorResponse("ConnectionError", fetch_error)
            [] FailureClass(fetch_error) = "insecure" ->
                   response = FetchErrorResponse("SSLError", fetch_error)
            [] OTHER -> response.status >= 400
    /\ (pc = "done" /\ BlankBody) => response = EmptyContentResponse
    /\ \A a, b \in {"Timeout", "ConnectionError", "SSLError"} :
          a # b => /\ FetchErrorResponse(a, Exc(a, "")).status
                        # FetchErrorResponse(b, Exc(b, "")).status
                   /\ FetchErrorResponse(a, Exc(a, "")).error
                        # FetchErrorResponse(b, Exc(b, "")).error
                   /\ FetchErrorResponse(a, Exc(a, "")).status # EmptyContentResponse.status

\* position of a log entry in the order of the stages
StageRank(entry) ==
    CASE entry = "crawler" -> 1
      [] entry = "fetched" -> 2
      [] entry = "parser" -> 3
      [] entry = "extracted" -> 4
      [] entry = "probe" -> 5
      [] entry = "generator" -> 6
      [] entry = "gen_links" -> 7
      [] entry = "gen_forms" -> 8
      [] entry = "gen_structure" -> 9
      [] entry = "gen_accessibility" -> 10
      [] entry = "gen_language" -> 11
      [] entry = "export" -> 12
      [] entry = "response" -> 13

\* C6: the stages of one analysis run strictly in order: the fetch completes
\* before the parser is built, extraction completes before the first link probe,
\* every link probe completes before the first test case is generated, and the
\* export happens after all generation steps.
C6_StagesInOrder ==
    /\ \A i, j \in DOMAIN log :
          i < j => \/ StageRank(log[i]) < StageRank(log[j])
                   \/ log[i] = "probe" /\ log[j] = "probe"
    /\ ~IsNone(parser) => ~IsNone(content) /\ Logged("fetched") /\ pc # "fetch"
    /\ probes # <<>> => ~IsNone(structure) /\ Logged("extracted")
    /\ (test_cases # <<>> \/ Logged("generator")) =>
          /\ Len(probes) = Len(links)
          /\ Count(log, {"probe"}) = Len(links)
    /\ ~IsNone(exported) =>
          /\ \A g \in {"gen_links", "gen_forms", "gen_structure", "gen_accessibility",
                       "gen_language"} : Logged(g)
          /\ exported.rows = CsvRows(test_cases)

\* an analysis of a page with two links ran to the rendered result
C6_Witness ==
    /\ pc = "done"
    /\ response.status = 200
    /\ Len(probes) = 2
    /\ ~IsNone(exported)
    /\ Len(exported.rows) > 20

\* C7: after the checking stage the LinkCheck list has the length of the Links
\* list and LinkCheck i is the result of the probe of Link i, whatever mix of
\* successes and failures occurred; a failed probe does not stop the later ones.
C7_LinkChecksAligned ==
    /\ Len(link_checks) <= Len(links)
    /\ \A i \in DOMAIN link_checks :
          /\ link_checks[i].url = links[i].url
          /\ probes[i].request.url = links[i].url
          /\ link_checks[i].status_code =
                (IF IsExc(probes[i].outcome) THEN NoneInt ELSE probes[i].outcome.status)
          /\ link_checks[i].is_accessible =
                (~IsExc(probes[i].outcome) /\ probes[i].outcome.status \in 200..399)
    /\ (Logged("extracted") /\ pc # "check_links") =>
          /\ Len(link_checks) = Len(links)
          /\ Len(probes) = Len(links)

\* the probe of the first link failed and the second link was still probed
C7_Witness ==
    /\ pc = "gen_links"
    /\ Len(links) = 2 /\ Len(link_checks) = 2
    /\ IsExc(probes[1].outcome)
    /\ link_checks[1].status_code = NoneInt
    /\ link_checks[2].is_accessible

\* the call was check_link_accessibility with a URL the urljoin of line 112
\* refuses
ProbeUrlRefused ==
    /\ last_call.fn = "check_link_accessibility"
    /\ urljoin_raises(GenCrawler.base_url, last_call.url)

\* what C8 asks of a call that was answered with a record
ProbeRecord ==
    LET r == last_call.returned
        link == last_call.fn = "check_link_accessibility"
        flag == IF link THEN r.is_accessible ELSE r.accepts_submission
    IN  /\ IF IsExc(last_call.outcome)
           THEN /\ r.status_code = NoneInt
                /\ flag = FALSE
                /\ HasKey(r, "error") /\ r.error = last_call.outcome.msg
           ELSE /\ r.status_code = last_call.outcome.status
                /\ flag = (last_call.outcome.status \in 200..399)
                /\ ~HasKey(r, "error")
        /\ IF link
           THEN /\ last_call.request.method = "HEAD"
                /\ last_call.request.allow_redirects
                /\ r.url = last_call.request.url
           ELSE /\ last_call.request.method =
                      (IF last_call.method \in {"GET", "get"} THEN "GET" ELSE "POST")
                /\ r.url = last_call.url

\* C8: check_link_accessibility and check_form_submission never raise: a
\* response gives a record whose flag is true iff 200 <= status < 400, a failed
\* probe gives status_code None, flag False and the error message; the form
\* probe is a GET for method GET and a POST for any other method.
C8_ProbesNeverRaise ==
    ~IsNone(last_call) =>
        /\ IsNone(last_call.raised)
        /\ ~IsNone(last_call.returned)
        /\ ProbeRecord

\* C8 as the code has it: check_link_accessibility and check_form_submission
\* answer every outcome of their probe, a response or an exception of
\* requests, with a record as above, when the URL can be joined to the base
\* URL; for a URL urljoin refuses check_link_accessibility raises the
\* ValueError of urljoin and issues no probe.
C8_ProbesRaiseOnlyOnUrl ==
    ~IsNone(last_call) =>
        IF ProbeUrlRefused
        THEN /\ ~IsNone(last_call.raised)
             /\ last_call.raised.cls = "ValueError"
             /\ IsNone(last_call.returned)
             /\ IsNone(last_call.request)
        ELSE /\ IsNone(last_call.raised)
             /\ ~IsNone(last_call.returned)
             /\ ProbeRecord

\* check_link_accessibility('http://[x') raised ValueError before any probe
C8_Witness ==
    /\ ~IsNone(last_call)
    /\ last_call.fn = "check_link_accessibility"
    /\ last_call.url = AnchorBadHttp.href
    /\ ~IsNone(last_call.raised)
    /\ last_call.raised = Exc("ValueError", InvalidUrlMessage)
    /\ IsNone(last_call.request) /\ IsNone(last_call.returned)

\* C9: after a timeout of the first attempt exactly one more attempt is made,
\* with the same connect timeout and the read timeout doubled; its text is
\* returned on success, and on failure its error is the one raised.
C9_TimeoutRetriedOnce ==
    FirstAttemptRaised("Timeout") =>
        /\ Len(attempts) <= 2
        /\ pc # "fetch" => Len(attempts) = 2
        /\ attempts[1].request.timeout = <<DEFAULT_CONNECT_TIMEOUT, DEFAULT_READ_TIMEOUT>>
        /\ Len(attempts) = 2 =>
            /\ attempts[2].request.url = attempts[1].request.url
            /\ attempts[2].request.verify = TRUE
            /\ attempts[2].request.timeout[1] = attempts[1].request.timeout[1]
            /\ attempts[2].request.timeout[2] = 2 * attempts[1].request.timeout[2]
            /\ IF IsNone(AttemptError(attempts[2]))
               THEN content = attempts[2].outcome.text /\ IsNone(fetch_error)
               ELSE fetch_error = AttemptError(attempts[2]) /\ IsNone(content)

\* the retry after a read timeout failed with a TLS error, which was raised
C9_Witness ==
    /\ FirstAttemptRaised("Timeout")
    /\ attempts[1].outcome.cls = "ReadTimeout"
    /\ Len(attempts) = 2
    /\ pc = "fetch_failed"
    /\ fetch_error.cls = "SSLError"

\* C10: after a TLS error of the first attempt exactly one more attempt is
\* made, with certificate verification disabled; its text is returned on
\* success and its error raised on failure.
C10_TlsRetriedUnverified ==
    (FirstAttemptRaised("SSLError") /\ pc # "fetch") =>
        /\ Len(attempts) = 2
        /\ attempts[2].request.verify = FALSE
        /\ IF IsNone(AttemptError(attempts[2]))
           THEN content = attempts[2].outcome.text /\ IsNone(fetch_error)
           ELSE fetch_error = AttemptError(attempts[2]) /\ IsNone(content)

\* C11: a connection-level failure of the first attempt (one that is not a
\* timeout), and an HTTP error status of the first attempt, is raised at once:
\* fetch_website_content makes no second request.
C11_ConnectionNotRetried ==
    (attempts # <<>>
       /\ ~IsNone(AttemptError(attempts[1]))
       /\ ~isinstance(AttemptError(attempts[1]).cls, "Timeout")
       /\ \/ isinstance(AttemptError(attempts[1]).cls, "ConnectionError")
          \/ isinstance(AttemptError(attempts[1]).cls, "HTTPError")) =>
        /\ Len(attempts) = 1
        /\ pc \in {"fetch_failed", "done"}
        /\ fetch_handler = None
        /\ fetch_error = AttemptError(attempts[1])
        /\ IsNone(content)

\* the first attempt was refused and the analysis answered 502 after that
\* single request
C11_Witness ==
    /\ pc = "done"
    /\ Len(attempts) = 1
    /\ IsExc(attempts[1].outcome) /\ attempts[1].outcome.cls = "ConnectionError"
    /\ response.status = 502

----------------------------------------------------------------------------
(* The parser driven directly: WebParser and parse_html on any content and *)
(* base URL, and the parse stage of analyze (app.py lines 426-446) entered *)
(* with any content                                                        *)

AnchorPort == Anchor(Url("http", "x.com:8080", Path(TRUE, <<"admin">>)), "Admin", EmptyDict)
ParserAnchors == {AnchorAbout, AnchorExternal, AnchorFr, AnchorNoHref, AnchorEmptyHref,
                  AnchorPort}
DeepUrl == Url("http", "x.com", Path(TRUE, <<"a", "b">>))
\* 'http://[x', a base URL urlparse refuses
BadNetlocUrl == Url("http", "[x", EmptyPath)
\* 'http:a/b', a base URL with a scheme and no netloc
SchemeOnlyUrl == Url("http", "", Path(FALSE, <<"a", "b">>))
ParserUrls == {NoneDict, NoUrl, BaseUrl, DeepUrl, BadNetlocUrl, SchemeOnlyUrl}
\* <form action="" method="Post"> with a textarea and a select required="false"
FeedbackForm ==
    [action |-> NoUrl, method |-> "Post",
     fields |-> <<[tag |-> "textarea", type |-> None, name |-> "msg", id |-> "msg",
                   required |-> None],
                  [tag |-> "select", type |-> None, name |-> "topic", id |-> None,
                   required |-> "false"]>>]
ParserForms == {LoginForm, SearchForm, FeedbackForm}
\* <form action="//[x">
BadActionForm == [action |-> Url("", "[x", EmptyPath), method |-> None, fields |-> <<>>]
ParserImages == {[alt |-> "logo"], [alt |-> ""], [alt |-> None]}
\* hrefs '../up', './x', '/a/../b' and 'https.html'
AnchorUp == Anchor(Url("", "", Path(FALSE, <<"..", "up">>)), "Up", EmptyDict)
AnchorDot == Anchor(Url("", "", Path(FALSE, <<".", "x">>)), "Here", EmptyDict)
AnchorRootDots == Anchor(Url("", "", Path(TRUE, <<"a", "..", "b">>)), "B", EmptyDict)
AnchorHttpsPage == Anchor(Url("", "", Path(FALSE, <<"https.html">>)), "TLS", EmptyDict)
DotAnchors == {AnchorUp, AnchorDot, AnchorRootDots, AnchorHttpsPage}
ParserDocuments ==
    {[sp EXCEPT !.anchors = as] : sp \in Soups, as \in SeqsUpTo(ParserAnchors, MaxLinks)}
    \cup {[MinimalSoup EXCEPT !.anchors = <<a>>] : a \in DotAnchors}
    \cup {[MinimalSoup EXCEPT !.anchors = as] :
             as \in {<<AnchorBadNetloc, AnchorFr>>, <<AnchorAbout, AnchorBadHttp>>}}
    \cup {[MinimalSoup EXCEPT !.forms = <<LoginForm, BadActionForm>>]}
    \cup {[MinimalSoup EXCEPT !.forms = fs] : fs \in SeqsUpTo(ParserForms, MaxForms)}
    \cup {[MinimalSoup EXCEPT !.images = is] : is \in SeqsUpTo(ParserImages, MaxImages)}
ParserContents == {NoneDict, EmptyText, BlankText, NbspText} \cup {HtmlText(d) : d \in ParserDocuments}

\* parse_html(content, request_url), called once
CallParseHtml ==
    /\ pc = "parse"
    /\ IsNone(last_call)
    /\ last_call' =
          IF ~IsNone(parse_html_raises(content, request_url))
          THEN [fn |-> "parse_html",
                raised |-> parse_html_raises(content, request_url).exc.cls,
                message |-> parse_html_raises(content, request_url).exc.msg,
                returned |-> NoneDict]
          ELSE [fn |-> "parse_html", raised |-> None, message |-> None,
                returned |-> parse_html(content, request_url)]
    /\ UNCHANGED <<calls, wrap_results, genVars, pipeVars>>

InitParse ==
    /\ interpreter \in Interpreters
    /\ pc = "parse"
    /\ content \in ParserContents
    /\ request_url \in ParserUrls
    /\ site = NoneDict /\ crawler = NoneDict
    /\ attempts = <<>> /\ fetch_handler = None /\ fetch_error = NoneDict
    /\ parser = NoneDict
    /\ links = <<>> /\ forms = <<>> /\ structure = NoneDict /\ language_analysis = NoneDict
    /\ link_checks = <<>> /\ probes = <<>> /\ exported = NoneDict /\ response = NoneDict
    /\ log = <<>>
    /\ IdleGen /\ IdleCalls

NextParse ==
    \/ Parse
    \/ CallParseHtml

SpecParse == InitParse /\ [][NextParse]_vars

\* the arguments are ones WebParser.__init__ refuses
BadParserInput ==
    \/ IsNone(content) \/ StrEmpty(content)
    \/ IsNone(request_url) \/ ~UrlTruthy(request_url)

\* C12: building the parser with empty or None content, or with an empty or
\* None base URL, raises before any extraction: parse_html returns nothing, and
\* the parse stage of analyze answers 422 with no links, forms or structure and
\* without a link probe.  With any other content and base URL the parser is
\* built: neither parse_html nor the parse stage reports that error.
C12_ParserRejectsEmpty ==
    /\ (~IsNone(last_call) /\ BadParserInput) =>
          /\ last_call.raised = "ValueError"
          /\ IsNone(last_call.returned)
    /\ (~IsNone(last_call) /\ ~BadParserInput) =>
          /\ last_call.message \notin {"HTML content cannot be None or empty",
                                       "Base URL cannot be None or empty"}
          /\ last_call.raised = None =>
                DOMAIN last_call.returned = {"links", "forms", "structure"}
    /\ (pc # "parse" /\ BadParserInput) =>
          /\ pc = "done"
          /\ response.status = 422
          /\ response.error = "Failed to parse website content."
          /\ IsNone(parser) /\ links = <<>> /\ forms = <<>> /\ IsNone(structure)
          /\ IsNone(language_analysis)
          /\ probes = <<>> /\ link_checks = <<>>
    /\ (pc # "parse" /\ ~BadParserInput) =>
          \/ pc = "check_links" /\ ~IsNone(parser)
          \/ /\ pc = "done"
             /\ response.details \notin {"HTML content cannot be None or empty",
                                          "Base URL cannot be None or empty"}
             /\ probes = <<>>

\* the parse stage was entered with a page and no base URL and answered 422
C12_Witness ==
    /\ pc = "done"
    /\ ~IsNone(content) /\ ~IsNone(content.soup)
    /\ IsNone(request_url)
    /\ response.status = 422
    /\ ~IsNone(last_call) /\ last_call.message = "Base URL cannot be None or empty"

\* urlparse(url).hostname: the host of a netloc, without the port
Hostname(netloc) == IF netloc = "x.com:8080" THEN "x.com" ELSE netloc

\* the anchors of the parsed document that have a non-empty href the base URL
\* resolves, in document order: an anchor whose href cannot be resolved is
\* skipped as one without href is
UsableAnchors ==
    SelectSeq(BeautifulSoup(content).anchors,
              LAMBDA a : /\ ~IsNone(a.href) /\ a.href # Url("", "", EmptyPath)
                         /\ ~urlparse_raises(a.href))

\* parse_html returned for the content and base URL of this run
ParseHtmlReturned == ~IsNone(last_call) /\ last_call.fn = "parse_html" /\ last_call.raised = None

\* the links are the anchors with a non-empty href, in document order, each
\* with its href resolved against the base URL
LinksResolved(ls) ==
    /\ Len(ls) = Len(UsableAnchors)
    /\ \A i \in DOMAIN ls :
          /\ ls[i].url = urljoin(request_url, UsableAnchors[i].href)
          /\ IsAbsolute(ls[i].url)
          /\ ls[i].text = UsableAnchors[i].text
          /\ ls[i].type \in {"internal", "external"}

\* C13: extract_links returns one entry per anchor with a non-empty href, in
\* document order, with the href resolved to an absolute URL, and its type is
\* internal iff the host of that URL equals the host of the base URL.
C13_LinksByHost ==
    ParseHtmlReturned =>
        LET ls == last_call.returned.links IN
        /\ LinksResolved(ls)
        /\ \A i \in DOMAIN ls :
              (ls[i].type = "internal") <=>
                  (Hostname(ls[i].url.netloc) = Hostname(request_url.netloc))

\* the forms parse_html returned are those of the document, in order
FormMatches(form, src) ==
    /\ form.method = (CASE src.method = None -> "GET"
                        [] src.method \in {"get", "GET"} -> "GET"
                        [] src.method \in {"post", "Post", "POST"} -> "POST"
                        [] OTHER -> src.method)
    /\ form.action = (IF IsNone(src.action) \/ src.action = Url("", "", EmptyPath)
                      THEN request_url
                      ELSE urljoin(request_url, src.action))
    /\ Len(form.fields) = Len(src.fields)
    /\ \A j \in DOMAIN src.fields :
          /\ form.fields[j].required = (src.fields[j].required # None)
          /\ form.fields[j].name = (IF src.fields[j].name = None THEN ""
                                    ELSE src.fields[j].name)
          /\ form.fields[j].type = (IF src.fields[j].type = None THEN "text"
                                    ELSE src.fields[j].type)

\* C14: extract_forms returns, for every form element, a form whose method is
\* GET when the attribute is absent and the attribute upper-cased otherwise,
\* whose action is the attribute resolved against the base URL (the base URL
\* itself when absent or empty), and whose fields are the input, textarea and
\* select elements in order, required iff the attribute is present.
C14_FormsExtracted ==
    ParseHtmlReturned =>
        LET fs == last_call.returned.forms
            src == BeautifulSoup(content).forms
        IN  /\ Len(fs) = Len(src)
            /\ \A i \in DOMAIN src : FormMatches(fs[i], src[i])

\* a form with an empty action, method "Post" and a select with
\* required="false" came after the login form
C14_Witness ==
    /\ ParseHtmlReturned
    /\ BeautifulSoup(content).forms = <<LoginForm, FeedbackForm>>
    /\ request_url = DeepUrl
    /\ last_call.returned.forms[2].action = DeepUrl
    /\ last_call.returned.forms[2].method = "POST"
    /\ last_call.returned.forms[2].fields[2].required
    /\ last_call.returned.forms[1].fields[1].required
    /\ ~last_call.returned.forms[1].fields[3].required

\* number of images of the document with a non-empty alt text
RECURSIVE ImagesWithAlt(_)
ImagesWithAlt(imgs) ==
    IF imgs = <<>> THEN 0
    ELSE (IF Head(imgs).alt \notin {None, ""} THEN 1 ELSE 0) + ImagesWithAlt(Tail(imgs))

\* C18: the SEO img_alt_ratio is the number of images with a non-empty alt
\* divided by the number of images, lies in [0,1], and is exactly 1 for a page
\* without images.
C18_AltRatio ==
    ParseHtmlReturned =>
        LET ratio == last_call.returned.structure.seo_elements.img_alt_ratio
            imgs == BeautifulSoup(content).images
        IN  /\ ratio.den > 0
            /\ 0 <= ratio.num /\ ratio.num <= ratio.den
            /\ imgs = <<>> => ratio.num = 1 /\ ratio.den = 1
            /\ imgs # <<>> => ratio.num * Len(imgs) = ImagesWithAlt(imgs) * ratio.den

\* three images, one with an alt text, one with an empty alt and one without
C18_Witness ==
    /\ ParseHtmlReturned
    /\ BeautifulSoup(content).images = <<[alt |-> "logo"], [alt |-> ""], [alt |-> None]>>
    /\ last_call.returned.structure.seo_elements.img_alt_ratio.num = 1
    /\ last_call.returned.structure.seo_elements.img_alt_ratio.den = 3

----------------------------------------------------------------------------
(* LanguageAnalyzer.analyze_language called directly, on any value and     *)
(* under every combination of exceptions in the steps it runs.             *)

\* a page in Arabic with an English passage
ArabicSoup ==
    [MixedSoup EXCEPT
        !.lang = <<"ar">>,
        !.text_runs = <<[lang |-> "ar", n |-> 48], [lang |-> "en", n |-> 16]>>,
        !.confidence = 124,
        !.sample_confidences = <<124, 124, 124, 124, 124, 124, 102, 58>>]

\* a page on which langid.classify answers the score -54.41
RawScoreSoup ==
    [RichSoup EXCEPT !.confidence = -6964]

\* a page of fewer than 10 characters of text, all inside a declared language
ShortSoup ==
    [RichSoup EXCEPT !.text_runs = <<[lang |-> "en", n |-> 9]>>]

\* a page of exactly 10 characters of text
TenCharSoup ==
    [RichSoup EXCEPT !.text_runs = <<[lang |-> "en", n |-> 10]>>]

\* a page of 57 characters, mostly English over the whole text, in which
\* every stretch of 7 characters is mostly French or mostly Arabic
AlternatingRuns ==
    <<[lang |-> "en", n |-> 3], [lang |-> "fr", n |-> 4],
      [lang |-> "en", n |-> 3], [lang |-> "ar", n |-> 4],
      [lang |-> "en", n |-> 3], [lang |-> "fr", n |-> 4],
      [lang |-> "en", n |-> 3], [lang |-> "ar", n |-> 4],
      [lang |-> "en", n |-> 3], [lang |-> "fr", n |-> 4],
      [lang |-> "en", n |-> 3], [lang |-> "ar", n |-> 4],
      [lang |-> "en", n |-> 3], [lang |-> "fr", n |-> 4],
      [lang |-> "en", n |-> 3], [lang |-> "ar", n |-> 4],
      [lang |-> "fr", n |-> 1]>>

\* the classifier is surer of the French samples than of the Arabic ones
AlternatingSoup ==
    [MixedSoup EXCEPT !.text_runs = AlternatingRuns,
                      !.sample_confidences = <<77, 38, 77, 38, 77, 38, 77, 38, 77>>]

\* <a href="/fr/" id="lang-fr" hreflang="fr">
AnchorLang == Anchor(Url("", "", Path(TRUE, <<"fr", "">>)), "Francais",
                     [id |-> "lang-fr", hreflang |-> "fr"])

\* a page with dir="ltr" on html, a content-language meta tag, an alternate
\* link and two anchors: one of class lang with href 'fr', one language switcher
SwitcherSoup ==
    [RichSoup EXCEPT
        !.dir = "ltr",
        !.content_language = [content |-> "en"],
        !.alternates = <<[href |-> Url("", "", Path(TRUE, <<"fr", "">>)), hreflang |-> "fr"]>>,
        !.anchors = <<AnchorFr, AnchorLang>>]

\* the same page with a content-language meta tag that has no content
NoContentMetaSoup == [SwitcherSoup EXCEPT !.content_language = [content |-> None]]

LanguageDocuments ==
    Soups \cup {ArabicSoup, RawScoreSoup, ShortSoup, TenCharSoup, AlternatingSoup,
                SwitcherSoup, NoContentMetaSoup}

LanguageContents ==
    {NoneDict, BytesContent, EmptyText, BlankText, NbspText}
    \cup {HtmlText(d) : d \in LanguageDocuments}

\* the number of calls of langid.classify one call of analyze_language makes:
\* none in the short-circuit, else one on the full text and, when that one
\* returns, one on each sample
classify_calls(html_content, faults) ==
    LET runs == BeautifulSoup(html_content).text_runs
        length == TextLen(runs)
    IN  IF length < 10 THEN 0
        ELSE IF faults.classify \/ length < 50 THEN 1
        ELSE 1 + NumSamples(length, length \div 8)

\* analyze_language(content, url), called once
CallAnalyzeLanguage ==
    /\ pc = "language"
    /\ IsNone(last_call)
    /\ \E faults \in Faults :
          last_call' =
             IF analyze_language_raises(content) # None
             THEN [fn |-> "analyze_language", faults |-> faults, classified |-> 0,
                   raised |-> analyze_language_raises(content), returned |-> NoneDict]
             ELSE [fn |-> "analyze_language", faults |-> faults,
                   classified |-> classify_calls(content, faults),
                   raised |-> None, returned |-> analyze_language(content, faults)]
    /\ UNCHANGED <<calls, wrap_results, genVars, pipeVars>>

InitLang ==
    /\ interpreter \in Interpreters
    /\ pc = "language"
    /\ content \in LanguageContents
    /\ request_url = BaseUrl /\ site = NoneDict /\ crawler = NoneDict
    /\ attempts = <<>> /\ fetch_handler = None /\ fetch_error = NoneDict
    /\ parser = NoneDict
    /\ links = <<>> /\ forms = <<>> /\ structure = NoneDict /\ language_analysis = NoneDict
    /\ link_checks = <<>> /\ probes = <<>> /\ exported = NoneDict /\ response = NoneDict
    /\ log = <<>>
    /\ IdleGen /\ IdleCalls

NextLang == CallAnalyzeLanguage

SpecLang == InitLang /\ [][NextLang]_vars

\* analyze_language has been called and has finished
LanguageCalled == ~IsNone(last_call) /\ last_call.fn = "analyze_language"

\* the text analyze_language works on has fewer than 10 characters
ShortText(html_content) ==
    IsNone(html_content.soup) \/ TextLen(html_content.soup.text_runs) < 10

\* a result that carries only the declared language and an error message
IsPartialResult(r) == DOMAIN r = {"error", "declared_language"}

\* a result with every entry of a full analysis and no error
IsFullResult(r) ==
    DOMAIN r = {"declared_language", "detected_language", "other_languages",
                "direction", "language_elements", "charset"}

\* C15 (as stated): on a str, analyze_language returns, and an exception in the
\* primary classification, the chunk sampling, the language-element
\* extraction or the charset detection outside the short-circuit gives a
\* partial result carrying only the declared language and an error message;
\* it raises only on None or on a value that is not a str.
C15_EveryFaultGivesPartial ==
    LanguageCalled =>
        /\ (last_call.raised # None) <=> (IsNone(content) \/ ~IsStr(content))
        /\ last_call.raised = None =>
              /\ ~IsNone(last_call.returned)
              /\ (~ShortText(content) /\ last_call.faults # NoFaults)
                    => IsPartialResult(last_call.returned)

\* C15 (amended): on a str, analyze_language returns and never raises; it
\* raises only on None or on a value that is not a str.  Outside the
\* short-circuit only an exception in the primary classification gives the
\* partial result; otherwise the result is full, a failing language-element
\* extraction leaves the empty element lists in it, a failing charset
\* detection leaves 'utf-8' in it, and failing chunks are skipped.
C15_OnlyClassifyGivesPartial ==
    LanguageCalled =>
        /\ (last_call.raised # None) <=> (IsNone(content) \/ ~IsStr(content))
        /\ last_call.raised = None =>
              /\ ~IsNone(last_call.returned)
              /\ ~ShortText(content) =>
                    IF last_call.faults.classify
                    THEN IsPartialResult(last_call.returned)
                    ELSE /\ IsFullResult(last_call.returned)
                         /\ last_call.faults.elements =>
                               last_call.returned.language_elements = NoLanguageElements
                         /\ last_call.faults.charset =>
                               last_call.returned.charset = "utf-8"
                         /\ last_call.faults.samples = AllSamples =>
                               last_call.returned.other_languages = <<>>

\* C15 witness: a page in two languages analysed with the classifier working
\* and the charset detection raising: the result is full, with charset utf-8
C15_Witness ==
    /\ LanguageCalled
    /\ content = HtmlText(MixedSoup)
    /\ last_call.faults = [NoFaults EXCEPT !.charset = TRUE]
    /\ last_call.raised = None
    /\ IsFullResult(last_call.returned)
    /\ last_call.returned.charset = "utf-8"
    /\ last_call.returned.other_languages # <<>>

\* C16: when the analyzable text has fewer than 10 characters, analyze_language
\* makes no call of the classifier and returns the error entry, the declared
\* language alone (None when none is declared), no detected language, the
\* empty list of other languages, the direction ltr, and the language
\* elements and the charset computed as for any other page.
C16_ShortCircuit ==
    (LanguageCalled /\ last_call.raised = None /\ ShortText(content)) =>
        LET soup == BeautifulSoup(content)
            r == last_call.returned
        IN  /\ last_call.classified = 0
            /\ DOMAIN r = {"error", "declared_language", "detected_language",
                           "other_languages", "direction", "language_elements", "charset"}
            /\ r.error = "Insufficient text content for language analysis"
            /\ r.declared_language = IF LangTruthy(soup.lang) THEN [code |-> soup.lang]
                                     ELSE NoneDict
            /\ IsNone(r.detected_language)
            /\ r.other_languages = <<>>
            /\ r.direction = "ltr"
            /\ r.language_elements =
                  IF last_call.faults.elements \/ find_multilingual_meta_raises(soup)
                  THEN NoLanguageElements
                  ELSE [lang_attributes   |-> find_lang_attributes(soup),
                        dir_attributes    |-> find_dir_attributes(soup),
                        multilingual_meta |-> find_multilingual_meta(soup),
                        translation_links |-> find_translation_links(soup)]
            /\ r.charset = detect_charset(content, last_call.faults.charset)

\* C16 witness: a page of 9 characters that declares its language, analysed
\* while the classifier would raise: the short-circuit result carries the
\* language attributes and the detected charset of the page
C16_Witness ==
    /\ LanguageCalled
    /\ content = HtmlText(ShortSoup)
    /\ last_call.faults = [NoFaults EXCEPT !.classify = TRUE]
    /\ last_call.classified = 0
    /\ last_call.returned.error = "Insufficient text content for language analysis"
    /\ last_call.returned.declared_language = [code |-> ShortSoup.lang]
    /\ last_call.returned.language_elements.lang_attributes # <<>>
    /\ last_call.returned.charset = ShortSoup.encoding

\* the code of the detected primary language of a result, None without one
DetectedCode(r) ==
    IF "detected_language" \in DOMAIN r /\ ~IsNone(r.detected_language)
    THEN r.detected_language.code ELSE None

\* C17: every result analyze_language returns, full, short-circuit or
\* classification failure, has a direction, ltr or rtl, that is rtl iff the
\* detected primary language is one of ar, fa, he, ur, arc, az, dv, ku, nqo,
\* and the confidence of its detected language lies within [0, 1].
C17_DirectionAndConfidence ==
    (LanguageCalled /\ last_call.raised = None) =>
        LET r == last_call.returned IN
        /\ "direction" \in DOMAIN r
        /\ r.direction \in {"ltr", "rtl"}
        /\ r.direction = "rtl" <=>
              DetectedCode(r) \in {"ar", "fa", "he", "ur", "arc", "az", "dv", "ku", "nqo"}
        /\ DetectedCode(r) # None =>
              (r.detected_language.confidence >= 0
               /\ r.detected_language.confidence <= 128)

----------------------------------------------------------------------------
(* The module-level fetch_website_content (crawler.py 150-170).  Here a    *)
(* response body is its literal text, a sequence of characters.            *)

\* sub in text, for two str
Contains(text, sub) ==
    \E i \in 1..(Len(text) - Len(sub) + 1) : SubSeq(text, i, i + Len(sub) - 1) = sub

\* the literal '<html>'
HtmlMarker == <<"<", "h", "t", "m", "l", ">">>

\* the marker step that prepends '<html>' to every text
html_marker_Always(text) == HtmlMarker \o text

\* crawler.py lines 166-168: '<html>' is prepended to a text that lacks it
html_marker(text) ==
    IF ~Contains(text, HtmlMarker) THEN HtmlMarker \o text ELSE text

\* the pieces of markup the raw bodies are made of
Pieces ==
    {HtmlMarker, <<"<", "h", "t", "m", "l">>, <<">">>, <<" ", "l">>, <<"<", "p", ">">>,
     <<"<", "h", "t">>, <<"m", "l", ">">>}

RawTexts == {Flatten(ps) : ps \in SeqsUpTo(Pieces, MaxPieces)}

\* outcomes of a GET of a page whose body is the raw text
RawOutcomes(text) ==
    {Resp(200, text, NoneDict), Resp(404, text, NoneDict),
     Exc("ReadTimeout", "Read timed out"), Exc("ConnectionError", "Connection refused"),
     Exc("SSLError", "certificate verify failed")}

\* connect_timeout / read_timeout arguments: None or a number of seconds
TimeoutArguments == {NoneInt, 1}

\* the module-level fetch_website_content has been left: it raised, or it
\* returned the fetched text after the marker step of lines 166-168
WrapperCall(requests, raised, fetched) ==
    [fn |-> "fetch_website_content", requests |-> requests, raised |-> raised,
     fetched |-> fetched,
     returned |-> IF ~IsNone(raised) THEN NoneDict ELSE html_marker(fetched)]

\* crawler.py lines 150-159: fetch_website_content(url, connect_timeout,
\* read_timeout) is called and builds its crawler, whose constructor may raise
CallFetchWebsiteContent ==
    /\ pc = "fetch_wrapper"
    /\ IsNone(crawler) /\ IsNone(last_call)
    /\ \E connect_timeout \in TimeoutArguments, read_timeout \in TimeoutArguments :
          IF ~IsNone(WebCrawler_raises(request_url))
          THEN /\ last_call' = WrapperCall(<<>>, WebCrawler_raises(request_url), NoneDict)
               /\ UNCHANGED crawler
          ELSE /\ crawler' = WebCrawler(request_url,
                                         IF connect_timeout # NoneInt THEN connect_timeout
                                         ELSE DEFAULT_CONNECT_TIMEOUT,
                                         IF read_timeout # NoneInt THEN read_timeout
                                         ELSE DEFAULT_READ_TIMEOUT)
               /\ UNCHANGED last_call
    /\ UNCHANGED <<interpreter, pc, request_url, site, attempts, fetch_handler, fetch_error,
                   content, parser, links, forms, structure, language_analysis, link_checks,
                   probes, exported, response, log>>
    /\ UNCHANGED <<calls, wrap_results, genVars>>

\* one session.get of WebCrawler.fetch_website_content has come back: the
\* first one (handler "None", line 67) or the one of an except clause (lines
\* 75 and 88).  A text goes through the marker step of lines 166-168 and is
\* returned, an exception no clause retries leaves the wrapper.
WrapperAttempt(handler, outcome) ==
    LET got == GetChecked(outcome)
        clause == IF handler = None /\ IsExc(got)
                  THEN FirstClause(FetchClauses, got.cls) ELSE None
        issued == Append(attempts, [request |-> FetchRequest(crawler, request_url, handler),
                                    outcome |-> outcome])
        requests == [i \in DOMAIN issued |-> issued[i].request]
    IN
    /\ attempts' = issued
    /\ IF ~IsExc(got)
       THEN /\ content' = got.text
            /\ last_call' = WrapperCall(requests, NoneDict, got.text)
            /\ UNCHANGED <<fetch_handler, fetch_error>>
       ELSE IF clause \in {"Timeout", "SSLError"}
       THEN /\ fetch_handler' = clause
            /\ UNCHANGED <<fetch_error, content, last_call>>
       ELSE /\ fetch_error' = got
            /\ last_call' = WrapperCall(requests, got, NoneDict)
            /\ UNCHANGED <<fetch_handler, content>>

\* crawler.py lines 160 and 65-69: the first attempt
WrapperFetchFirst ==
    /\ pc = "fetch_wrapper"
    /\ ~IsNone(crawler) /\ IsNone(last_call) /\ fetch_handler = None
    /\ \E outcome \in RawOutcomes(site) : WrapperAttempt(None, outcome)
    /\ UNCHANGED <<interpreter, pc, request_url, site, crawler, parser, links, forms,
                   structure, language_analysis, link_checks, probes, exported, response, log>>
    /\ UNCHANGED <<calls, wrap_results, genVars>>

\* crawler.py lines 73-80 and 86-93: the attempt made by an except clause
WrapperFetchRetry ==
    /\ pc = "fetch_wrapper"
    /\ ~IsNone(crawler) /\ IsNone(last_call) /\ fetch_handler # None
    /\ \E outcome \in RawOutcomes(site) : WrapperAttempt(fetch_handler, outcome)
    /\ UNCHANGED <<interpreter, pc, request_url, site, crawler, parser, links, forms,
                   structure, language_analysis, link_checks, probes, exported, response, log>>
    /\ UNCHANGED <<calls, wrap_results, genVars>>

\* the URLs fetch_website_content is called with
WrapperUrls == {BaseUrl, BadNetlocUrl}

InitFetch ==
    /\ interpreter \in Interpreters
    /\ pc = "fetch_wrapper"
    /\ request_url \in WrapperUrls
    /\ site \in RawTexts
    /\ crawler = NoneDict
    /\ attempts = <<>> /\ fetch_handler = None /\ fetch_error = NoneDict
    /\ content = NoneDict /\ parser = NoneDict
    /\ links = <<>> /\ forms = <<>> /\ structure = NoneDict /\ language_analysis = NoneDict
    /\ link_checks = <<>> /\ probes = <<>> /\ exported = NoneDict /\ response = NoneDict
    /\ log = <<>>
    /\ IdleGen /\ IdleCalls

NextFetch ==
    \/ CallFetchWebsiteContent
    \/ WrapperFetchFirst
    \/ WrapperFetchRetry

SpecFetch == InitFetch /\ [][NextFetch]_vars

\* the module-level fetch_website_content has returned a text
FetchReturned ==
    /\ ~IsNone(last_call) /\ last_call.fn = "fetch_website_content"
    /\ IsNone(last_call.raised)

\* C19: the text the module-level fetch_website_content returns contains the
\* literal '<html>': it is the fetched text itself when that contains
\* '<html>', else '<html>' followed by the fetched text; the marker step
\* applied to the returned text leaves it as it is.
C19_HtmlMarker ==
    FetchReturned =>
        /\ Contains(last_call.returned, HtmlMarker)
        /\ Contains(last_call.fetched, HtmlMarker) => last_call.returned = last_call.fetched
        /\ ~Contains(last_call.fetched, HtmlMarker) =>
              last_call.returned = HtmlMarker \o last_call.fetched
        /\ html_marker(last_call.returned) = last_call.returned

\* C19 witness: a page that opens with '<html l' and holds '<html>' later is
\* fetched after a timeout and returned unchanged
C19_Witness ==
    /\ FetchReturned
    /\ Len(last_call.requests) = 2
    /\ last_call.fetched = <<"<", "h", "t", "m", "l">> \o HtmlMarker
    /\ last_call.returned = last_call.fetched

\* the dict is what parse_html returns: the keys links, forms and structure
IsParseResult(d) == DOMAIN d = {"links", "forms", "structure"}

\* C20: given the result of parse_html on a non-empty HTML text,
\* generate_test_cases returns a non-empty list of test cases and raises
\* nothing, also for a page without links and forms and without a language
\* entry in the dict.
C20_ParseResultGivesTestCases ==
    \A i \in DOMAIN wrap_results :
        IsParseResult(wrap_results[i].input) =>
            /\ wrap_results[i].raised = None
            /\ wrap_results[i].output # <<>>

\* C20 witness: generate_test_cases has been given the parse result of a page
\* of white space only, with no link, no form and no language entry, and has
\* returned test cases
C20_Witness ==
    \E i \in DOMAIN wrap_results :
        /\ wrap_results[i].input = parse_html(BlankText, BaseUrl)
        /\ wrap_results[i].input.links = <<>>
        /\ wrap_results[i].input.forms = <<>>
        /\ ~HasKey(wrap_results[i].input, "language")
        /\ wrap_results[i].raised = None
        /\ Len(wrap_results[i].output) > 0

----------------------------------------------------------------------------
(* Claims on the analyze handler and on the rules of the generator *)

\* the url form field is missing, empty or not a URL validators.url accepts
InvalidRequestUrl == request_url = NoUrl \/ request_url = BadUrl

\* C21: a POST to analyze with a missing or invalid URL is answered with
\* status 400 and the 'Invalid URL' error, and at no time does anything else
\* happen: no crawler, no fetch, no probe, no test case, no report file.
C21_InvalidUrlRejected ==
    InvalidRequestUrl =>
        /\ IsNone(crawler) /\ attempts = <<>> /\ probes = <<>> /\ link_checks = <<>>
        /\ IsNone(parser) /\ test_cases = <<>> /\ tc_counter = 1 /\ IsNone(exported)
        /\ pc \in {"start", "done"}
        /\ pc = "done" =>
              /\ response.status = 400
              /\ response.error =
                    "Invalid URL provided. Please enter a valid URL including http:// or https://"
              /\ log = <<"response">>

\* C21 witness: the request with url=invalid-url has been answered
C21_Witness ==
    /\ request_url = BadUrl
    /\ pc = "done"
    /\ response.status = 400
    /\ IsNone(crawler) /\ test_cases = <<>>

\* C22: for every (Link, LinkCheck) pair of an analysis the accessibility test
\* case of the link is Pass iff the check's is_accessible is true, else Fail;
\* the actual result of a Fail carries the error text of the probe when the
\* probe raised and the status code otherwise.
C22_LinkVerdicts ==
    Logged("gen_links") =>
        \A i \in DOMAIN links :
            LET tc == test_cases[2 * i]
                check == link_checks[i]
                outcome == probes[i].outcome
            IN  /\ tc.Description = <<"Verify accessibility of link: ", links[i].text>>
                /\ tc.Status = (IF check.is_accessible THEN "Pass" ELSE "Fail")
                /\ ~check.is_accessible =>
                      tc.ActualResult =
                         (IF IsExc(outcome)
                          THEN <<"Link is not accessible: ", outcome.msg>>
                          ELSE <<"Link is not accessible: Status code: ", outcome.status>>)

\* C22 witness: the probe of the first link raised a connection error and its
\* accessibility test case is Fail with the error text; the second link
\* answered 404 and its test case is Fail with the status code
C22_Witness ==
    /\ Logged("gen_links")
    /\ Len(links) = 2
    /\ IsExc(probes[1].outcome) /\ probes[1].outcome.cls = "ConnectionError"
    /\ test_cases[2].Status = "Fail"
    /\ test_cases[2].ActualResult = <<"Link is not accessible: ", "Connection refused">>
    /\ test_cases[4].Status = "Fail"
    /\ test_cases[4].ActualResult = <<"Link is not accessible: Status code: ", 404>>

\* the test cases generated so far with the given description
WithDescription(d) == SelectSeq(test_cases, LAMBDA tc : tc.Description = d)

\* C23: for a page analyzed through the parser and the generator, a viewport
\* meta whose content contains 'width=device-width' gives the responsive-design
\* test case with status Pass; a page without any viewport meta gives no
\* responsive-design test case, while the script-loading and the
\* stylesheet-loading test cases are generated all the same.
C23_ViewportRule ==
    Logged("gen_structure") =>
        LET viewport == parser.soup.meta.viewport
            responsive == WithDescription(<<"Verify responsive design meta tag">>)
        IN  /\ (~IsNone(viewport) /\ ContainsDeviceWidth(OrEmpty(viewport.content))) =>
                  (Len(responsive) = 1 /\ responsive[1].Status = "Pass")
            /\ IsNone(viewport) =>
                  /\ responsive = <<>>
                  /\ Len(WithDescription(<<"Verify script loading">>)) = 1
                  /\ Len(WithDescription(<<"Verify stylesheet loading">>)) = 1

\* the parsed page has an input element, of any type or of none
PageHasInput ==
    \E i \in DOMAIN AllFields(parser.soup.forms) : AllFields(parser.soup.forms)[i].tag = "input"

\* C24: for a page analyzed through the parser and the generator, the
\* interactive-elements test case is Pass iff the page has at least one input
\* field of any kind, an input without a type attribute included, and Info
\* otherwise; it is never Fail or Warning.
C24_InteractiveVerdict ==
    Logged("gen_structure") =>
        LET interactive == WithDescription(<<"Verify form elements presence">>) IN
        /\ Len(interactive) = 1
        /\ interactive[1].Status = (IF PageHasInput THEN "Pass" ELSE "Info")

\* C25: the heading-hierarchy test case is Pass iff the page has at least one
\* H1 and the multiple-H1 test case is Pass iff it has at most one H1: both
\* are Pass exactly for one H1, and a page without H1 gets heading-hierarchy
\* Fail together with multiple-H1 Pass.
C25_HeadingVerdicts ==
    Logged("gen_accessibility") =>
        LET n == Len(parser.soup.h1)
            hierarchy == WithDescription(<<"Verify heading hierarchy">>)
            multiple == WithDescription(<<"Check for multiple H1 headings">>)
        IN  /\ structure.headings.h1 = parser.soup.h1
            /\ Len(hierarchy) = 1 /\ Len(multiple) = 1
            /\ hierarchy[1].Status = (IF n >= 1 THEN "Pass" ELSE "Fail")
            /\ multiple[1].Status = (IF n <= 1 THEN "Pass" ELSE "Fail")
            /\ (hierarchy[1].Status = "Pass" /\ multiple[1].Status = "Pass") <=> n = 1

\* C25 witness: a page without H1 has got heading-hierarchy Fail and
\* multiple-H1 Pass
C25_Witness ==
    /\ Logged("gen_accessibility")
    /\ parser.soup.h1 = <<>>
    /\ WithDescription(<<"Verify heading hierarchy">>)[1].Status = "Fail"
    /\ WithDescription(<<"Check for multiple H1 headings">>)[1].Status = "Pass"

RECURSIVE SumCounts(_)
SumCounts(rs) == IF rs = <<>> THEN 0 ELSE Head(rs).count + SumCounts(Tail(rs))

\* the chunks among the 8 of size floor(length/8) that are classified, without
\* an exception, as the language code
ChunksOf(runs, code, failing) ==
    LET step == TextLen(runs) \div 8 IN
    {k \in 1..8 : k \notin failing /\ classify(runs, (k - 1) * step, k * step) = code}

\* C26: for a text of at least 50 characters _detect_other_languages takes 8
\* contiguous chunks of size floor(length/8) that together cover the text,
\* skips a chunk whose classification raises and records the chunks whose
\* language is not the primary one: no entry has the primary's code, the
\* count of an entry is the number of chunks recorded for its code, and the
\* counts sum to at most 8.  For a text under 50 characters the list is empty.
C26_EightChunks ==
    (LanguageCalled /\ last_call.raised = None /\ IsFullResult(last_call.returned)) =>
        LET runs == content.soup.text_runs
            length == TextLen(runs)
            primary == last_call.returned.detected_language.code
            others == last_call.returned.other_languages
        IN  IF length < 50 THEN others = <<>>
            ELSE /\ 8 * (length \div 8) >= length
                 /\ \A i \in DOMAIN others :
                       /\ others[i].code # primary
                       /\ others[i].count =
                             Cardinality(ChunksOf(runs, others[i].code, last_call.faults.samples))
                 /\ SumCounts(others) <= 8

\* C27: every Form extract_forms produces has a non-empty action, so each
\* submission-endpoint test case of an analysis is Pass, never Fail, also for
\* a form without an action attribute.
C27_EndpointAlwaysPass ==
    /\ \A i \in DOMAIN forms : UrlTruthy(forms[i].action)
    /\ Logged("gen_forms") =>
          \A i \in DOMAIN forms :
              LET endpoint == WithDescription(<<"Verify form submission endpoint #", i>>) IN
              /\ Len(endpoint) = 1
              /\ endpoint[1].Status = "Pass"
              /\ endpoint[1].ActualResult = <<"Form action URL is ", "valid">>

\* C27 witness: the form of the page has no action attribute, its action is
\* the URL of the page and its submission-endpoint test case is Pass
C27_Witness ==
    /\ Logged("gen_forms")
    /\ Len(forms) = 1
    /\ IsNone(parser.soup.forms[1].action)
    /\ forms[1].action = request_url
    /\ WithDescription(<<"Verify form submission endpoint #", 1>>)[1].Status = "Pass"

\* a LinkCheck of the data model: it has the entries is_accessible and status_code
IsLinkCheck(check) == HasKey(check, "is_accessible") /\ HasKey(check, "status_code")

\* C28: given LinkChecks, generate_link_test_cases adds two test cases, the
\* presence one and then the accessibility one, for each of the first
\* min(len(links), len(link_checks)) links and none for the rest; lists of
\* different lengths raise no error and leave no gap in the TC_IDs.
C28_LinksZipped ==
    (/\ ~IsNone(last_call) /\ last_call.fn = "generate_link_test_cases"
     /\ \A k \in DOMAIN last_call.args[2] : IsLinkCheck(last_call.args[2][k])) =>
        LET ls == last_call.args[1]
            checks == last_call.args[2]
            n == Min(Len(ls), Len(checks))
            before == last_call.before
        IN  /\ last_call.raised = None
            /\ Len(test_cases) = before + 2 * n
            /\ \A k \in 1..n :
                  /\ test_cases[before + 2 * k - 1].Description =
                        <<"Verify presence of link: ", ls[k].text>>
                  /\ test_cases[before + 2 * k].Description =
                        <<"Verify accessibility of link: ", ls[k].text>>
                  /\ test_cases[before + 2 * k].Status =
                        (IF checks[k].is_accessible THEN "Pass" ELSE "Fail")
            /\ \A j \in (before + 1)..Len(test_cases) : IdIsNumber(test_cases[j], j)

\* C28 witness: two links given with one check, after other test cases: two
\* test cases were added, both for the first link
C28_Witness ==
    /\ ~IsNone(last_call) /\ last_call.fn = "generate_link_test_cases"
    /\ Len(last_call.args[1]) = 2 /\ Len(last_call.args[2]) = 1
    /\ last_call.before > 0
    /\ last_call.raised = None
    /\ Len(test_cases) = last_call.before + 2
    /\ test_cases[Len(test_cases)].Description =
          <<"Verify accessibility of link: ", last_call.args[1][1].text>>

\* the test cases of a list that are link-accessibility test cases
AccessibilityOfLinks(tcs) ==
    SelectSeq(tcs, LAMBDA tc : tc.Description[1] = "Verify accessibility of link: ")

\* C29: the module-level generate_test_cases issues no probe and ignores the
\* link checks of its input: it returns one link-accessibility test case per
\* link, each Pass with status code 200, whatever the reachability of the link.
C29_WrapperLinksPass ==
    /\ (pc = "wrap") => probes = <<>>
    /\ \A i \in DOMAIN wrap_results :
          LET ls == IF HasKey(wrap_results[i].input, "links")
                    THEN wrap_results[i].input.links ELSE <<>>
              acc == AccessibilityOfLinks(wrap_results[i].output)
          IN  /\ Len(acc) = Len(ls)
              /\ \A k \in DOMAIN acc :
                    /\ acc[k].Description = <<"Verify accessibility of link: ", ls[k].text>>
                    /\ acc[k].Status = "Pass"
                    /\ acc[k].ActualResult = <<"Link is accessible with status code ", 200>>

\* C29 witness: the input carries link checks that all failed, and the two
\* link-accessibility test cases returned are Pass
C29_Witness ==
    \E i \in DOMAIN wrap_results :
        /\ HasKey(wrap_results[i].input, "link_checks")
        /\ Len(wrap_results[i].input.link_checks) = 2
        /\ ~wrap_results[i].input.link_checks[1].is_accessible
        /\ Len(AccessibilityOfLinks(wrap_results[i].output)) = 2
        /\ AccessibilityOfLinks(wrap_results[i].output)[1].Status = "Pass"

\* the test cases the five groups consist of, in the order of the claim
GroupedSteps ==
    generate_link_test_cases(links, link_checks)
    \o generate_form_test_cases(forms)
    \o generate_structure_test_cases(structure)
    \o generate_accessibility_test_cases(structure)
    \o generate_language_test_cases(language_analysis)

\* C30: in a completed analyze run the output is the concatenation of the link
\* test cases (in link order, the presence test of a link immediately before
\* its accessibility test), the form test cases, the structure test cases, the
\* accessibility test cases and the language test cases, in this order, and
\* the exported rows are in the order of the generated sequence.
C30_OutputOrder ==
    (pc = "done" /\ response.status = 200) =>
        /\ Len(test_cases) = Len(GroupedSteps)
        /\ \A k \in DOMAIN test_cases :
              /\ GroupedSteps[k].op = "add"
              /\ test_cases[k].Description = GroupedSteps[k].tc.Description
              /\ test_cases[k].TestStep = GroupedSteps[k].tc.TestStep
              /\ test_cases[k].ActualResult = GroupedSteps[k].tc.ActualResult
              /\ test_cases[k].Status = GroupedSteps[k].tc.Status
        /\ \A i \in DOMAIN links :
              /\ test_cases[2 * i - 1].Description =
                    <<"Verify presence of link: ", links[i].text>>
              /\ test_cases[2 * i].Description =
                    <<"Verify accessibility of link: ", links[i].text>>
        /\ forms # <<>> =>
              test_cases[2 * Len(links) + 1].Description = <<"Verify presence of form #", 1>>
        /\ response.test_cases = test_cases
        /\ Len(exported.rows) = Len(test_cases)
        /\ \A k \in DOMAIN test_cases :
              /\ exported.rows[k][1] = test_cases[k].TC_ID
              /\ exported.rows[k][2] = test_cases[k].Description
              /\ exported.rows[k][6] = test_cases[k].Status

\* C30 witness: a completed run on a page with two links and a form, whose
\* output ends with language test cases
C30_Witness ==
    /\ pc = "done" /\ response.status = 200
    /\ Len(links) = 2 /\ forms # <<>>
    /\ generate_language_test_cases(language_analysis) # <<>>
    /\ test_cases[5].Description = <<"Verify presence of form #", 1>>
    /\ test_cases[Len(test_cases)].Description =
          generate_language_test_cases(language_analysis)[
              Len(generate_language_test_cases(language_analysis))].tc.Description
    /\ Len(exported.rows) = Len(test_cases)

====
